---- MODULE Spec2Model ----
(***************************************************************************)
(* A model of the kops cluster-spec completion code: the CIDR allocator    *)
(* (upup/pkg/fi/cloudup/subnets.go), populateClusterSpec and the Subnet    *)
(* and LoadBalancer tasks (upup/pkg/fi/cloudup/populate_cluster_spec.go).  *)
(*                                                                         *)
(* An IPv4 address is a 32-bit unsigned number kept as two 16-bit halves   *)
(* (hi, lo), so that the uint32 arithmetic of the code keeps its width and *)
(* its wrap-around.  A CIDR *string* (ClusterSubnetSpec.CIDR, NetworkCIDR) *)
(* is kept apart from a parsed *net.IPNet: ParseCIDR masks the host bits   *)
(* away and may fail, IPNet.String() prints "<nil>" for a network whose    *)
(* mask is nil.                                                            *)
(***************************************************************************)
EXTENDS Integers, Sequences, FiniteSets, TLC

VARIABLES
    cluster,         \* the *kops.Cluster the operations work on
    before,          \* the cluster as it was when the latest operation began
    err,             \* the error the latest operation returned
    op,              \* the latest operation
    calls,           \* the number of operations so far
    parent,          \* splitInto8Subnets: its argument
    subnets,         \* splitInto8Subnets: the slice it returned
    instanceGroups,  \* the names of the instance groups that exist
    ids,             \* WellKnownServiceIP: the ids it was called with, in order
    serviceIPs,      \* WellKnownServiceIP: what each call returned
    fullCluster,     \* PopulateClusterSpec: the cluster it returned, or Nil
    fullBefore,      \* the returned cluster as it read when the latest operation began
    topologies,      \* the heap of *TopologySpec objects; a pointer is an index, 0 is nil
    env,             \* what the stores, the cloud and the missing validators answer
    task,            \* the task being reconciled: the expected resource (e)
    target,          \* the back-end of the run: "AWS" or "Terraform"
    cloud,           \* the resources that exist in the cloud
    cloudBefore,     \* the cloud as it was when the latest run began
    actual,          \* what Find returned in the latest run (a), or Nil
    changes,         \* the diff of the latest run
    trace,           \* the methods and cloud calls of the latest run, in order
    output,          \* the resources the Terraform target of the latest run was given
    runs,            \* of each run so far: the task it began with, its error, output and calls
    machineType,     \* defaultMasterMachineType: what the latest call returned
    steps            \* PopulateClusterSpec: the statements of run() the latest call executed

vars == <<cluster, before, err, op, calls, parent, subnets, instanceGroups,
          ids, serviceIPs, fullCluster, fullBefore, topologies, env,
          task, target, cloud, cloudBefore, actual, changes, trace, output, runs, machineType, steps>>

\* The variables of the template functions, and their values while none of
\* the functions has been called.
templateVars == <<ids, serviceIPs>>

TemplateIdle == ids = <<>> /\ serviceIPs = <<>>

\* The variables of PopulateClusterSpec, and their values while it is not
\* part of the specification.
populateVars == <<fullCluster, fullBefore, topologies, env, steps>>

PopulateIdle ==
    /\ fullCluster = [k |-> "nil"]
    /\ fullBefore = [k |-> "nil"]
    /\ topologies = <<>>
    /\ env = [fail |-> "none", dnsZone |-> ""]
    /\ steps = <<>>

\* The variables of the task reconciler, and their values while no task is
\* run.
taskVars == <<task, target, cloud, cloudBefore, actual, changes, trace, output, runs>>

TaskIdle ==
    /\ task = [k |-> "nil"]
    /\ target = "none"
    /\ cloud = [k |-> "nil"]
    /\ cloudBefore = [k |-> "nil"]
    /\ actual = [k |-> "nil"]
    /\ changes = [k |-> "nil"]
    /\ trace = <<>>
    /\ output = {}
    /\ runs = <<>>

\* The variable of the instance group defaults, and its value while no
\* default is asked for.
machineTypeVars == <<machineType>>

MachineTypeIdle == machineType = ""

(***************************************************************************)
(* Package net and encoding/binary, as far as the code uses them.          *)
(***************************************************************************)

\* One 16-bit half of a uint32 counts modulo Half.
Half == 2 ^ 16

\* The bits of an IPv4 address and mask: net.CIDRMask(networkLength, 32).
IPv4Bits == 32

\* The bits of an IPv6 address: net.IPv6len bytes.
IPv6Bits == 16 * 8

\* net.IPv4(a, b, c, d)
IPv4(a, b, c, d) == [fam |-> "v4", hi |-> a * 256 + b, lo |-> c * 256 + d]

\* A 16-byte address that is not IPv4-mapped; hi keeps its first 16 bits.
IPv6(h) == [fam |-> "v6", hi |-> h, lo |-> 0]

\* IP.To4() # nil
To4(ip) == ip.fam = "v4"

\* A nil net.IPMask.
NilMask == [ones |-> 0, bits |-> 0]

\* net.CIDRMask(ones, bits)
CIDRMask(ones, bits) ==
    IF bits \notin {IPv4Bits, IPv6Bits} \/ ones < 0 \/ ones > bits
    THEN NilMask
    ELSE [ones |-> ones, bits |-> bits]

\* IPMask.Size(): (0, 0) for a nil mask.
MaskSize(m) == <<m.ones, m.bits>>

\* The low n bits of a 16-bit half cleared.
ClearLow(h, n) == h - (h % (2 ^ n))

\* IP.Mask(mask) for a mask of the address's own length (every mask of the
\* model is nil or of its network's family).  Of an IPv6 address only the
\* first 16 bits are kept.
MaskIP(ip, m) ==
    LET host == IPv4Bits - m.ones
    IN  IF ip.fam = "v6"
        THEN [ip EXCEPT !.hi = IF m.ones >= 16 THEN ip.hi ELSE ClearLow(ip.hi, 16 - m.ones)]
        ELSE IF host >= 16
        THEN [ip EXCEPT !.hi = ClearLow(ip.hi, host - 16), !.lo = 0]
        ELSE [ip EXCEPT !.lo = ClearLow(ip.lo, host)]

\* uint32(i) << uint(s): a negative s converts to a huge unsigned count, and a
\* count of 32 or more shifts every bit out.
Shl32(i, s) ==
    IF s < 0 \/ s >= IPv4Bits THEN <<0, 0>>
    ELSE IF s >= 16 THEN <<(i * (2 ^ (s - 16))) % Half, 0>>
    ELSE <<((i * (2 ^ s)) \div Half) % Half, (i * (2 ^ s)) % Half>>

\* binary.BigEndian.Uint32(ip4) + k, put back with PutUint32: modulo 2^32.
Add32(ip, k) ==
    LET lo == ip.lo + k[2]
        hi == ip.hi + k[1] + (lo \div Half)
    IN  [fam |-> "v4", hi |-> hi % Half, lo |-> lo % Half]

\* IPNet.Contains(ip): false for a network whose mask is nil or whose family
\* is not the address's.
Contains(n, ip) ==
    /\ n.Mask # NilMask
    /\ n.IP.fam = ip.fam
    /\ MaskIP(n.IP, n.Mask) = MaskIP(ip, n.Mask)

(***************************************************************************)
(* CIDR strings.  "" is EmptyStr; a well-formed "a.b.c.d/n" is a record    *)
(* with the address as written (host bits included) and the prefix length. *)
(***************************************************************************)
EmptyStr == [k |-> "empty"]

\* IPNet.String() of a network whose mask is nil.
NilStr == [k |-> "<nil>"]

CIDRStr(ip, ones) == [k |-> "cidr", ip |-> ip, ones |-> ones]

\* net.ParseCIDR(s): the error, or the network with the host bits masked away.
ParseOK(s) ==
    /\ s.k = "cidr"
    /\ s.ones >= 0
    /\ s.ones <= (IF s.ip.fam = "v4" THEN IPv4Bits ELSE IPv6Bits)

ParseCIDR(s) ==
    LET m == CIDRMask(s.ones, IF s.ip.fam = "v4" THEN IPv4Bits ELSE IPv6Bits)
    IN  [IP |-> MaskIP(s.ip, m), Mask |-> m]

\* IPNet.String()
String(n) ==
    IF n.Mask = NilMask
    THEN NilStr
    ELSE CIDRStr(n.IP, n.Mask.ones)

(***************************************************************************)
(* subnets.go: splitInto8Subnets                                           *)
(***************************************************************************)
NoErr == "nil"

\* The i-th subnet (i = 0..7) that the loop of splitInto8Subnets appends.
SplitChild(p, networkLength, i) ==
    [IP   |-> Add32(p.IP, Shl32(i, IPv4Bits - networkLength)),
     Mask |-> CIDRMask(networkLength, IPv4Bits)]

\* splitInto8Subnets(parent): the subnets and the error.
splitInto8Subnets(p) ==
    LET networkLength == MaskSize(p.Mask)[1] + 3
    IN  IF To4(p.IP)
        THEN [subnets |-> [i \in 1..8 |-> SplitChild(p, networkLength, i - 1)],
              err     |-> NoErr]
        ELSE [subnets |-> <<>>, err |-> "Unexpected IP address type"]

(***************************************************************************)
(* subnets.go: assignCIDRsToSubnets.  A subnet is [Zone, Type, CIDR]; its   *)
(* Name only appears in error messages.  Zones are numbered in the order   *)
(* of their names ("us-test-1a" < "us-test-1b").                           *)
(***************************************************************************)

\* allSubnetsHaveCIDRs(c)
allSubnetsHaveCIDRs(c) ==
    \A i \in 1..Len(c.Subnets) : c.Subnets[i].CIDR # EmptyStr

\* cidrsOverlap(l, r)
cidrsOverlap(l, r) == Contains(l, r.IP) \/ Contains(r, l.IP)

\* ByZone.Less with the comparison turned around.
ByZoneGreater(subs, i, j) == subs[i].Zone > subs[j].Zone

\* ByZone.Less on two subnets of c.Spec.Subnets, named by their indices.
ByZoneLess(subs, i, j) == subs[i].Zone < subs[j].Zone

\* sort.Sort(ByZone(s)) on a slice of at most 6 pointers is the insertion
\* sort of package sort: each element moves left while it is Less than its
\* predecessor.
RECURSIVE InsertByZone(_, _, _)
InsertByZone(subs, sorted, x) ==
    IF sorted = <<>> THEN <<x>>
    ELSE IF ByZoneLess(subs, x, sorted[Len(sorted)])
         THEN Append(InsertByZone(subs, SubSeq(sorted, 1, Len(sorted) - 1), x),
                     sorted[Len(sorted)])
         ELSE Append(sorted, x)

RECURSIVE SortByZone(_, _)
SortByZone(subs, s) ==
    IF s = <<>> THEN <<>>
    ELSE InsertByZone(subs, SortByZone(subs, SubSeq(s, 1, Len(s) - 1)), s[Len(s)])

\* The indices of the subnets of the given types, in the order of c.Spec.Subnets.
RECURSIVE SubnetsOfType(_, _, _)
SubnetsOfType(subs, types, i) ==
    IF i > Len(subs) THEN <<>>
    ELSE (IF subs[i].Type \in types THEN <<i>> ELSE <<>>)
             \o SubnetsOfType(subs, types, i + 1)

BigTypes == {"Public", "Private"}

LittleTypes == {"Utility"}

\* The first loop: the error it returns at the first subnet of unknown type
\* or unparsable CIDR.
ClassifyErr(subs) ==
    LET bad == {i \in 1..Len(subs) :
                   \/ subs[i].Type \notin BigTypes \cup LittleTypes
                   \/ (subs[i].CIDR # EmptyStr /\ ~ParseOK(subs[i].CIDR))}
        first == CHOOSE i \in bad : \A j \in bad : i <= j
    IN  IF bad = {} THEN NoErr
        ELSE IF subs[first].Type \notin BigTypes \cup LittleTypes
             THEN "unknown type"
             ELSE "unexpected CIDR"

\* The first loop: reserved, the parsed CIDRs of the subnets that have one.
Reserved(subs) ==
    {ParseCIDR(subs[i].CIDR) : i \in {j \in 1..Len(subs) : subs[j].CIDR # EmptyStr}}

\* "Remove any CIDRs marked as overlapping": the children that overlap no
\* reserved CIDR, in order.
nonOverlapping(bigCIDRs, reserved) ==
    SelectSeq(bigCIDRs, LAMBDA c : \A r \in reserved : ~cidrsOverlap(r, c))

\* An assignment loop that does not skip the subnets that have a CIDR.
RECURSIVE AssignLoopOverwrite(_, _, _, _)
AssignLoopOverwrite(subs, order, cidrs, insufficient) ==
    IF order = <<>> THEN [Subnets |-> subs, err |-> NoErr]
    ELSE IF cidrs = <<>> THEN [Subnets |-> subs, err |-> insufficient]
    ELSE AssignLoopOverwrite([subs EXCEPT ![Head(order)].CIDR = String(Head(cidrs))],
                             Tail(order), Tail(cidrs), insufficient)

\* "for _, subnet := range bigSubnets" and "... range littleSubnets": each
\* subnet without a CIDR takes the next CIDR of the pool; the loop returns an
\* error, keeping what it has assigned, when the pool is empty.
RECURSIVE AssignLoop(_, _, _, _)
AssignLoop(subs, order, cidrs, insufficient) ==
    IF order = <<>> THEN [Subnets |-> subs, err |-> NoErr]
    ELSE IF subs[Head(order)].CIDR # EmptyStr
         THEN AssignLoop(subs, Tail(order), cidrs, insufficient)
    ELSE IF cidrs = <<>> THEN [Subnets |-> subs, err |-> insufficient]
    ELSE AssignLoop([subs EXCEPT ![Head(order)].CIDR = String(Head(cidrs))],
                    Tail(order), Tail(cidrs), insufficient)

\* "bigCIDRs = bigCIDRs[1:]": the pool of the Public and Private subnets.
BigPool(bigCIDRs) == Tail(bigCIDRs)

\* "littleCIDRs, err := splitInto8Subnets(bigCIDRs[0])": the pool of the
\* Utility subnets.
LittlePool(bigCIDRs) == splitInto8Subnets(Head(bigCIDRs)).subnets

\* assignCIDRsToSubnets(c): the cluster as the call leaves it, and the error.
assignCIDRsToSubnets(c) ==
    LET subs     == c.Subnets
        cidr     == ParseCIDR(c.NetworkCIDR)
        split    == splitInto8Subnets(cidr)
        bigCIDRs == nonOverlapping(split.subnets, Reserved(subs))
        big      == AssignLoop(subs,
                               SortByZone(subs, SubnetsOfType(subs, BigTypes, 1)),
                               BigPool(bigCIDRs), "insufficient (big) CIDRs")
        little   == AssignLoop(big.Subnets,
                               SortByZone(subs, SubnetsOfType(subs, LittleTypes, 1)),
                               LittlePool(bigCIDRs), "insufficient (little) CIDRs")
    IN  IF allSubnetsHaveCIDRs(c) THEN [c |-> c, err |-> NoErr]
        ELSE IF ~ParseOK(c.NetworkCIDR) THEN [c |-> c, err |-> "Invalid NetworkCIDR"]
        ELSE IF split.err # NoErr THEN [c |-> c, err |-> split.err]
        ELSE IF ClassifyErr(subs) # NoErr THEN [c |-> c, err |-> ClassifyErr(subs)]
        ELSE IF bigCIDRs = <<>> THEN [c |-> c, err |-> "could not find any non-overlapping CIDRs"]
        ELSE IF big.err # NoErr THEN [c |-> [c EXCEPT !.Subnets = big.Subnets], err |-> big.err]
        ELSE [c |-> [c EXCEPT !.Subnets = little.Subnets], err |-> little.err]

(***************************************************************************)
(* populate_cluster_spec.go: the etcd check of populateClusterSpec.run.    *)
(* An etcd cluster is [Name, Members], a member [Name, InstanceGroup];     *)
(* InstanceGroup is fi.StringValue of the member's pointer, "" when nil.   *)
(***************************************************************************)

\* A parity test that takes the odd sizes for the even ones.
EvenSizeFlipped(n) == (n % 2) = 1

\* (len(etcdInstanceGroups) % 2) == 0
EvenSize(n) == (n % 2) = 0

\* The second loop over etcd.Members: etcdNames is looked up and never
\* written, so it stays empty; etcdInstanceGroups gets each member's group.
\* The state after the first n members, or the error met among them.
RECURSIVE EtcdMemberLoop(_, _)
EtcdMemberLoop(members, n) ==
    IF n = 0 THEN [etcdNames |-> {}, etcdInstanceGroups |-> {}, err |-> NoErr]
    ELSE LET s == EtcdMemberLoop(members, n - 1)
             m == members[n]
         IN  IF s.err # NoErr THEN s
             ELSE IF m.Name \in s.etcdNames
                  THEN [s EXCEPT !.err = "EtcdMembers found with same name"]
             ELSE IF m.InstanceGroup \in s.etcdInstanceGroups
                  THEN [s EXCEPT !.err = "EtcdMembers are in the same InstanceGroup"]
             ELSE [s EXCEPT !.etcdInstanceGroups = @ \cup {m.InstanceGroup}]

\* The body of "for i, etcd := range cluster.Spec.EtcdClusters".
CheckEtcdCluster(etcd) ==
    LET members == etcd.Members
        unnamed == {i \in 1..Len(members) :
                       members[i].Name = "" \/ members[i].InstanceGroup = ""}
        first   == CHOOSE i \in unnamed : \A j \in unnamed : i <= j
        loop    == EtcdMemberLoop(members, Len(members))
    IN  IF etcd.Name = "" THEN "EtcdClusters did not specify a Name"
        ELSE IF unnamed # {}
             THEN (IF members[first].Name = ""
                   THEN "EtcdMember did not specify a Name"
                   ELSE "EtcdMember did not specify a InstanceGroup")
        ELSE IF loop.err # NoErr THEN loop.err
        ELSE IF EvenSize(Cardinality(loop.etcdInstanceGroups))
             THEN "There should be an odd number of master-zones"
        ELSE NoErr

\* "Check etcd configuration": the error of the first etcd cluster that has one.
RECURSIVE CheckEtcd(_)
CheckEtcd(etcdClusters) ==
    IF etcdClusters = <<>> THEN NoErr
    ELSE IF CheckEtcdCluster(Head(etcdClusters)) # NoErr
         THEN CheckEtcdCluster(Head(etcdClusters))
         ELSE CheckEtcd(Tail(etcdClusters))

(***************************************************************************)
(* populate_cluster_spec.go: populateClusterSpec.assignSubnets.            *)
(* KubeControllerManager is Nil or the record of its ClusterCIDR.          *)
(***************************************************************************)
Nil == [k |-> "nil"]

\* The default of ClusterCIDR without the '1' in the extra bit: the lower half.
ClusterCIDRLowerHalf(nonMasqueradeCIDR) ==
    [IP   |-> MaskIP(nonMasqueradeCIDR.IP, nonMasqueradeCIDR.Mask),
     Mask |-> CIDRMask(MaskSize(nonMasqueradeCIDR.Mask)[1] + 1,
                       MaskSize(nonMasqueradeCIDR.Mask)[2])]

\* "n += uint32(1 << uint(nmBits-nmOnes-1))" on the masked address, with the
\* mask net.CIDRMask(nmOnes+1, nmBits).
ClusterCIDRDefault(nonMasqueradeCIDR) ==
    LET nmOnes == MaskSize(nonMasqueradeCIDR.Mask)[1]
        nmBits == MaskSize(nonMasqueradeCIDR.Mask)[2]
        ip     == MaskIP(nonMasqueradeCIDR.IP, nonMasqueradeCIDR.Mask)
    IN  [IP   |-> Add32(ip, Shl32(1, nmBits - nmOnes - 1)),
         Mask |-> CIDRMask(nmOnes + 1, nmBits)]

\* The masked address with the mask net.CIDRMask(nmOnes+3, nmBits).
ServiceRangeDefault(nonMasqueradeCIDR) ==
    LET nmOnes == MaskSize(nonMasqueradeCIDR.Mask)[1]
        nmBits == MaskSize(nonMasqueradeCIDR.Mask)[2]
    IN  [IP   |-> MaskIP(nonMasqueradeCIDR.IP, nonMasqueradeCIDR.Mask),
         Mask |-> CIDRMask(nmOnes + 3, nmBits)]

\* assignSubnets(cluster): the cluster as the call leaves it, and the error.
assignSubnets(c) ==
    LET nonMasqueradeCIDR == ParseCIDR(c.NonMasqueradeCIDR)
        c1 == IF c.KubeControllerManager = Nil
              THEN [c EXCEPT !.KubeControllerManager = [ClusterCIDR |-> EmptyStr]]
              ELSE c
        c2 == IF c1.KubeControllerManager.ClusterCIDR = EmptyStr
              THEN [c1 EXCEPT !.KubeControllerManager.ClusterCIDR =
                                  String(ClusterCIDRDefault(nonMasqueradeCIDR))]
              ELSE c1
        c3 == IF c2.ServiceClusterIPRange = EmptyStr
              THEN [c2 EXCEPT !.ServiceClusterIPRange =
                                  String(ServiceRangeDefault(nonMasqueradeCIDR))]
              ELSE c2
    IN  IF c.NonMasqueradeCIDR = EmptyStr THEN [c |-> c, err |-> NoErr]
        ELSE IF ~ParseOK(c.NonMasqueradeCIDR)
             THEN [c |-> c, err |-> "error parsing NonMasqueradeCIDR"]
        ELSE IF c1.KubeControllerManager.ClusterCIDR = EmptyStr
                /\ ~To4(nonMasqueradeCIDR.IP)
             THEN [c |-> c1, err |-> "IPV6 subnet computations not yet implements"]
        ELSE [c |-> c3, err |-> NoErr]

(***************************************************************************)
(* populate_cluster_spec.go: TemplateFunctions.WellKnownServiceIP.         *)
(***************************************************************************)

\* A nil net.IP.
NoIP == [fam |-> "nil", hi |-> 0, lo |-> 0]

\* uint32(id) of an id that is not negative, as the two halves Add32 takes.
Uint32(id) == <<(id \div Half) % Half, id % Half>>

\* serviceIPInt.Add(big.NewInt(int64(id)), baseIPInt) written into 16 bytes:
\* of an address that ends in 16 zero bits, plus an id below 2^16, the last
\* 16 bits are the id.
AddBig(ip, id) == [ip EXCEPT !.lo = @ + id]

\* WellKnownServiceIP(id) on the cluster c: the address and the error.
WellKnownServiceIP(c, id) ==
    LET cidr == ParseCIDR(c.ServiceClusterIPRange)
    IN  IF ~ParseOK(c.ServiceClusterIPRange)
        THEN [ip |-> NoIP, err |-> "error parsing ServiceClusterIPRange"]
        ELSE IF To4(cidr.IP)
        THEN [ip |-> Add32(cidr.IP, Uint32(id)), err |-> NoErr]
        ELSE [ip |-> AddBig(cidr.IP, id), err |-> NoErr]

(***************************************************************************)
(* The values that the variables of one specification keep while another   *)
(* specification's operations run.                                         *)
(***************************************************************************)
NoCluster ==
    [NetworkCIDR |-> EmptyStr, Subnets |-> <<>>, EtcdClusters |-> <<>>,
     NonMasqueradeCIDR |-> EmptyStr, KubeControllerManager |-> Nil,
     ServiceClusterIPRange |-> EmptyStr,
     KubernetesVersion |-> <<>>, DNSZone |-> "", Topology |-> 0,
     SecretStore |-> "", KeyStore |-> "", ConfigStore |-> ""]

NoSubnets == <<>>

NoNet == [IP |-> IPv4(0, 0, 0, 0), Mask |-> NilMask]

(***************************************************************************)
(* SpecSplit: splitInto8Subnets called once on a parent that ParseCIDR     *)
(* returned, as assignCIDRsToSubnets calls it on the parsed NetworkCIDR.   *)
(***************************************************************************)
SplitAddresses ==
    {IPv4(172, 20, 77, 129), IPv4(10, 0, 0, 0), IPv4(255, 255, 255, 255),
     IPv4(100, 64, 0, 0)}

SplitParents ==
    {ParseCIDR(CIDRStr(ip, n)) : ip \in SplitAddresses, n \in 0..IPv4Bits}
        \cup {ParseCIDR(CIDRStr(IPv6(65152), n)) : n \in {10, 64}}

InitSplit ==
    /\ parent \in SplitParents
    /\ subnets = <<>>
    /\ err = NoErr
    /\ op = "init"
    /\ TemplateIdle
    /\ MachineTypeIdle
    /\ PopulateIdle
    /\ TaskIdle
    /\ calls = 0
    /\ cluster = NoCluster
    /\ before = NoCluster
    /\ instanceGroups = {}

\* subnets, err := splitInto8Subnets(parent)
Split ==
    /\ calls = 0
    /\ subnets' = splitInto8Subnets(parent).subnets
    /\ err' = splitInto8Subnets(parent).err
    /\ op' = "split"
    /\ calls' = 1
    /\ UNCHANGED <<parent, cluster, before, instanceGroups>>
    /\ UNCHANGED templateVars
    /\ UNCHANGED machineTypeVars
    /\ UNCHANGED populateVars
    /\ UNCHANGED taskVars

NextSplit == Split

SpecSplit == InitSplit /\ [][NextSplit]_vars

(***************************************************************************)
(* SpecSubnets: assignCIDRsToSubnets called on a cluster of up to          *)
(* MaxSubnets subnets, each with or without a CIDR of the user's, then     *)
(* called again, on its own output or after the user has added a subnet.   *)
(***************************************************************************)
MaxSubnets == 4

MaxCalls == 2

Zones == {1, 2}

\* NetworkCIDR: the default 172.20.0.0/16, and two networks with fewer than
\* 6 host bits.
SubnetNetworks ==
    {CIDRStr(IPv4(172, 20, 0, 0), 16), CIDRStr(IPv4(172, 20, 0, 0), 28),
     CIDRStr(IPv4(172, 20, 0, 0), 30)}

\* The subnets a user gives a CIDR: the upper half of 172.20.0.0/16, and its
\* first quarter written with host bits.
UserSubnets ==
    {[Zone |-> 1, Type |-> "Public",  CIDR |-> CIDRStr(IPv4(172, 20, 128, 0), 17)],
     [Zone |-> 2, Type |-> "Private", CIDR |-> CIDRStr(IPv4(172, 20, 0, 7), 18)]}

\* The subnets of the initial cluster: Public and Utility subnets without a
\* CIDR, and the user's.  (Private subnets without a CIDR come by AddSubnet.)
SubnetChoices ==
    {[Zone |-> z, Type |-> t, CIDR |-> EmptyStr] :
        z \in Zones, t \in {"Public", "Utility"}} \cup UserSubnets

InitSubnets ==
    /\ cluster \in {[NoCluster EXCEPT !.NetworkCIDR = n, !.Subnets = s] :
                       n \in SubnetNetworks,
                       s \in UNION {[1..k -> SubnetChoices] : k \in 0..MaxSubnets}}
    /\ before = cluster
    /\ err = NoErr
    /\ op = "init"
    /\ TemplateIdle
    /\ MachineTypeIdle
    /\ PopulateIdle
    /\ TaskIdle
    /\ calls = 0
    /\ parent = NoNet
    /\ subnets = NoSubnets
    /\ instanceGroups = {}

\* err := assignCIDRsToSubnets(cluster)
AssignCIDRs ==
    /\ calls < MaxCalls
    /\ before' = cluster
    /\ LET r == assignCIDRsToSubnets(cluster)
       IN  cluster' = r.c /\ err' = r.err
    /\ op' = "assign"
    /\ calls' = calls + 1
    /\ UNCHANGED <<parent, subnets, instanceGroups>>
    /\ UNCHANGED templateVars
    /\ UNCHANGED machineTypeVars
    /\ UNCHANGED populateVars
    /\ UNCHANGED taskVars

\* Between two calls the user adds a subnet without a CIDR to the cluster.
AddSubnet ==
    /\ op = "assign"
    /\ calls < MaxCalls
    /\ Len(cluster.Subnets) < MaxSubnets
    /\ \E z \in Zones, t \in BigTypes \cup LittleTypes :
          cluster' = [cluster EXCEPT
                         !.Subnets = Append(@, [Zone |-> z, Type |-> t, CIDR |-> EmptyStr])]
    /\ op' = "add"
    /\ UNCHANGED <<before, err, calls, parent, subnets, instanceGroups>>
    /\ UNCHANGED templateVars
    /\ UNCHANGED machineTypeVars
    /\ UNCHANGED populateVars
    /\ UNCHANGED taskVars

NextSubnets == AssignCIDRs \/ AddSubnet

SpecSubnets == InitSubnets /\ [][NextSubnets]_vars

(***************************************************************************)
(* SpecEtcd: the etcd check of run on the etcd clusters of a cluster: one  *)
(* etcd cluster "main" of up to MaxMembers members, alone or beside a      *)
(* second etcd cluster.                                                    *)
(***************************************************************************)
MaxMembers == 3

MemberNames == {"", "a", "b", "c"}

GroupNames == {"", "master-a", "master-b", "master-c"}

EtcdMembers == [Name : MemberNames, InstanceGroup : GroupNames]

MainClusters ==
    {[Name |-> "main", Members |-> m] :
        m \in UNION {[1..k -> EtcdMembers] : k \in 0..MaxMembers}}

\* A second etcd cluster: "events" with one member, or one without a name.
OtherClusters ==
    {[Name |-> n, Members |-> <<[Name |-> "a", InstanceGroup |-> "master-a"]>>] :
        n \in {"events", ""}}

InitEtcd ==
    /\ \E e \in MainClusters :
          \/ cluster = [NoCluster EXCEPT !.EtcdClusters = <<e>>]
          \/ \E o \in OtherClusters :
                cluster \in {[NoCluster EXCEPT !.EtcdClusters = <<e, o>>],
                             [NoCluster EXCEPT !.EtcdClusters = <<o, e>>]}
    /\ instanceGroups \in {{"master-a", "master-b", "master-c", "nodes"},
                           {"master-a", "master-b", "nodes"}}
    /\ before = cluster
    /\ err = NoErr
    /\ op = "init"
    /\ TemplateIdle
    /\ MachineTypeIdle
    /\ PopulateIdle
    /\ TaskIdle
    /\ calls = 0
    /\ parent = NoNet
    /\ subnets = NoSubnets

\* run, from "Check etcd configuration" to the end of its block.
RunCheckEtcd ==
    /\ calls = 0
    /\ err' = CheckEtcd(cluster.EtcdClusters)
    /\ op' = "etcd"
    /\ calls' = 1
    /\ UNCHANGED <<cluster, before, parent, subnets, instanceGroups>>
    /\ UNCHANGED templateVars
    /\ UNCHANGED machineTypeVars
    /\ UNCHANGED populateVars
    /\ UNCHANGED taskVars

NextEtcd == RunCheckEtcd

SpecEtcd == InitEtcd /\ [][NextEtcd]_vars

(***************************************************************************)
(* SpecRanges: assignSubnets called once on a cluster whose                *)
(* NonMasqueradeCIDR is unset, no CIDR, or a CIDR of any prefix length,    *)
(* and whose two ranges are each the user's or unset.                      *)
(***************************************************************************)

\* A string that is no CIDR.
BadStr == [k |-> "bad"]

NonMasqueradeCIDRs ==
    {CIDRStr(ip, n) :
        ip \in {IPv4(100, 64, 0, 0), IPv4(10, 1, 2, 3), IPv4(255, 255, 255, 255)},
        n \in 0..IPv4Bits}
        \cup {CIDRStr(IPv6(65152), 10), EmptyStr, BadStr}

InitRanges ==
    /\ cluster \in {[NoCluster EXCEPT !.NonMasqueradeCIDR = n,
                                      !.KubeControllerManager = k,
                                      !.ServiceClusterIPRange = r] :
                       n \in NonMasqueradeCIDRs,
                       k \in {Nil, [ClusterCIDR |-> EmptyStr],
                              [ClusterCIDR |-> CIDRStr(IPv4(100, 96, 0, 0), 11)]},
                       r \in {EmptyStr, CIDRStr(IPv4(100, 64, 0, 0), 13)}}
    /\ before = cluster
    /\ err = NoErr
    /\ op = "init"
    /\ TemplateIdle
    /\ MachineTypeIdle
    /\ PopulateIdle
    /\ TaskIdle
    /\ calls = 0
    /\ parent = NoNet
    /\ subnets = NoSubnets
    /\ instanceGroups = {}

\* err = c.assignSubnets(cluster)
RunAssignSubnets ==
    /\ calls = 0
    /\ before' = cluster
    /\ cluster' = assignSubnets(cluster).c
    /\ err' = assignSubnets(cluster).err
    /\ op' = "ranges"
    /\ calls' = 1
    /\ UNCHANGED <<parent, subnets, instanceGroups>>
    /\ UNCHANGED templateVars
    /\ UNCHANGED machineTypeVars
    /\ UNCHANGED populateVars
    /\ UNCHANGED taskVars

NextRanges == RunAssignSubnets

SpecRanges == InitRanges /\ [][NextRanges]_vars

(***************************************************************************)
(* SpecServiceIP: WellKnownServiceIP called up to MaxServiceCalls times on *)
(* a cluster whose ServiceClusterIPRange is a CIDR, "" or "<nil>".         *)
(***************************************************************************)
MaxServiceCalls == 2

\* Ranges with 19, 2 and 0 host bits, the last addresses of IPv4, all of
\* IPv4, and two IPv6 ranges; the second is written with host bits.
ServiceRanges ==
    {CIDRStr(IPv4(100, 64, 0, 0), 13), CIDRStr(IPv4(10, 0, 0, 5), 30),
     CIDRStr(IPv4(10, 1, 2, 3), IPv4Bits), CIDRStr(IPv4(255, 255, 255, 252), 30),
     CIDRStr(IPv4(0, 0, 0, 0), 0),
     CIDRStr(IPv6(65152), 10), CIDRStr(IPv6(65152), IPv6Bits),
     EmptyStr, NilStr}

\* The ids of the calls; 1 and 10 are the ones the templates use.
ServiceIds == {0, 1, 2, 3, 4, 10}

InitServiceIP ==
    /\ cluster \in {[NoCluster EXCEPT !.ServiceClusterIPRange = r] : r \in ServiceRanges}
    /\ before = cluster
    /\ err = NoErr
    /\ op = "init"
    /\ calls = 0
    /\ parent = NoNet
    /\ subnets = NoSubnets
    /\ instanceGroups = {}
    /\ TemplateIdle
    /\ MachineTypeIdle
    /\ PopulateIdle
    /\ TaskIdle

\* ip, err := tf.WellKnownServiceIP(id)
CallWellKnownServiceIP ==
    /\ Len(ids) < MaxServiceCalls
    /\ \E id \in ServiceIds :
          /\ ids' = Append(ids, id)
          /\ serviceIPs' = Append(serviceIPs, WellKnownServiceIP(cluster, id))
          /\ err' = WellKnownServiceIP(cluster, id).err
    /\ op' = "serviceip"
    /\ calls' = calls + 1
    /\ UNCHANGED <<cluster, before, parent, subnets, instanceGroups>>
    /\ UNCHANGED machineTypeVars
    /\ UNCHANGED populateVars
    /\ UNCHANGED taskVars

NextServiceIP == CallWellKnownServiceIP

SpecServiceIP == InitServiceIP /\ [][NextServiceIP]_vars

(***************************************************************************)
(* populate_cluster_spec.go: PopulateClusterSpec and run.  A cluster is    *)
(* its Spec; Spec.Topology is a pointer into topologies.  The state of a   *)
(* run is c.InputCluster (input), the local cluster, completed,            *)
(* fullCluster, the heap and the error that ended the run.  A step leaves  *)
(* the state alone once the run has failed.                                *)
(***************************************************************************)

\* input.Validate(strict): what it checks is not part of the model; env
\* says whether it finds fault.  It writes nothing.
Validate(c, strict, e) ==
    IF e.fail = (IF strict THEN "Validate(true)" ELSE "Validate(false)")
    THEN "validation failed"
    ELSE NoErr

\* utils.JsonMergeStruct(dest, src) into an empty dest: a deep copy of src;
\* the TopologySpec it points to is copied to a new object.
JsonMergeStruct(src, heap) ==
    IF src.Topology = 0
    THEN [c |-> src, topologies |-> heap]
    ELSE [c |-> [src EXCEPT !.Topology = Len(heap) + 1],
          topologies |-> Append(heap, heap[src.Topology])]

\* cluster.FillDefaults(): of its defaults the model keeps the topology,
\* public when unset.
FillDefaults(c, heap, e) ==
    IF e.fail = "FillDefaults"
    THEN [c |-> c, topologies |-> heap, err |-> "FillDefaults failed"]
    ELSE IF c.Topology = 0
    THEN [c |-> [c EXCEPT !.Topology = Len(heap) + 1],
          topologies |-> Append(heap, "public"), err |-> NoErr]
    ELSE [c |-> c, topologies |-> heap, err |-> NoErr]

\* PerformAssignments(cluster): of its assignments the model keeps the subnet
\* CIDRs, assigned by assignCIDRsToSubnets.
PerformAssignments(c, e) ==
    IF e.fail = "PerformAssignments"
    THEN [c |-> c, err |-> "PerformAssignments failed"]
    ELSE assignCIDRsToSubnets(c)

\* specBuilder.BuildCompleteSpec(&cluster.Spec, ...): the completed spec is a
\* new ClusterSpec with the values of cluster.Spec; the options the loader
\* adds are not part of the model.
BuildCompleteSpec(spec, e) ==
    IF e.fail = "BuildCompleteSpec"
    THEN [completed |-> spec, err |-> "error building complete spec"]
    ELSE [completed |-> spec, err |-> NoErr]

\* strings.TrimSpace on a string held as the sequence of its pieces.
RECURSIVE TrimLeft(_)
TrimLeft(v) == IF v # <<>> /\ Head(v) = " " THEN TrimLeft(Tail(v)) ELSE v

RECURSIVE TrimRight(_)
TrimRight(v) ==
    IF v # <<>> /\ v[Len(v)] = " " THEN TrimRight(SubSeq(v, 1, Len(v) - 1)) ELSE v

TrimSpace(v) == TrimRight(TrimLeft(v))

\* "Normalize k8s version": versionWithoutV.
VersionWithoutV(v) ==
    IF TrimSpace(v) # <<>> /\ Head(TrimSpace(v)) = "v"
    THEN Tail(TrimSpace(v))
    ELSE TrimSpace(v)

StartRun(input, heap) ==
    [input |-> input, cluster |-> input, completed |-> input,
     fullCluster |-> Nil, topologies |-> heap, err |-> NoErr, steps |-> <<>>]

\* err := c.InputCluster.Validate(false)
ValidateInputStep(st, e) ==
    IF st.err # NoErr THEN st
    ELSE [st EXCEPT !.err = Validate(st.input, FALSE, e)]

\* cluster := &api.Cluster{}; utils.JsonMergeStruct(cluster, c.InputCluster)
CopyStep(st) ==
    IF st.err # NoErr THEN st
    ELSE [st EXCEPT !.cluster = JsonMergeStruct(st.input, st.topologies).c,
                    !.topologies = JsonMergeStruct(st.input, st.topologies).topologies]

\* The call of assignSubnets made on c.InputCluster.
AssignSubnetsStepOnInput(st) ==
    IF st.err # NoErr THEN st
    ELSE [st EXCEPT !.input = assignSubnets(st.input).c,
                    !.err = assignSubnets(st.input).err]

\* err = c.assignSubnets(cluster)
AssignSubnetsStep(st) ==
    IF st.err # NoErr THEN st
    ELSE [st EXCEPT !.cluster = assignSubnets(st.cluster).c,
                    !.err = assignSubnets(st.cluster).err]

\* err = cluster.FillDefaults()
FillDefaultsStep(st, e) ==
    IF st.err # NoErr THEN st
    ELSE LET r == FillDefaults(st.cluster, st.topologies, e)
         IN  [st EXCEPT !.cluster = r.c, !.topologies = r.topologies, !.err = r.err]

\* err = PerformAssignments(cluster)
PerformAssignmentsStep(st, e) ==
    IF st.err # NoErr THEN st
    ELSE LET r == PerformAssignments(st.cluster, e)
         IN  [st EXCEPT !.cluster = r.c, !.err = r.err]

\* "Check etcd configuration"
CheckEtcdStep(st) ==
    IF st.err # NoErr THEN st
    ELSE [st EXCEPT !.err = CheckEtcd(st.cluster.EtcdClusters)]

\* registry.KeyStore, registry.SecretStore, vfs.Context.BuildVfsPath and the
\* three vfs.IsClusterReadable tests; each store is written to the cluster
\* when its test passes.
StoresStep(st, e) ==
    IF st.err # NoErr THEN st
    ELSE IF e.fail \in {"registry.KeyStore", "registry.SecretStore"}
    THEN [st EXCEPT !.err = e.fail]
    ELSE IF e.fail = "secrets path is not cluster readable"
    THEN [st EXCEPT !.err = e.fail]
    ELSE IF e.fail = "keyStore path is not cluster readable"
    THEN [st EXCEPT !.cluster.SecretStore = "secrets", !.err = e.fail]
    ELSE IF e.fail \in {"error parsing ConfigBase", "ConfigBase path is not cluster readable"}
    THEN [st EXCEPT !.cluster.SecretStore = "secrets", !.cluster.KeyStore = "pki",
                    !.err = e.fail]
    ELSE [st EXCEPT !.cluster.SecretStore = "secrets", !.cluster.KeyStore = "pki",
                    !.cluster.ConfigStore = "config"]

\* "Normalize k8s version"
NormalizeVersionStep(st) ==
    IF st.err # NoErr THEN st
    ELSE [st EXCEPT !.cluster.KubernetesVersion = VersionWithoutV(@)]

\* cloud, err := BuildCloud(cluster)
BuildCloudStep(st, e) ==
    IF st.err # NoErr THEN st
    ELSE IF e.fail = "BuildCloud" THEN [st EXCEPT !.err = e.fail]
    ELSE st

\* cluster.Spec.Topology = c.InputCluster.Spec.Topology
TopologyStep(st) ==
    IF st.err # NoErr THEN st
    ELSE [st EXCEPT !.cluster.Topology = st.input.Topology]

\* if cluster.Spec.DNSZone == "": cloud.DNS(), FindDNSHostedZone
DNSZoneStep(st, e) ==
    IF st.err # NoErr \/ st.cluster.DNSZone # "" THEN st
    ELSE IF e.fail \in {"error getting DNS for cloud", "Error determining default DNS zone"}
    THEN [st EXCEPT !.err = e.fail]
    ELSE [st EXCEPT !.cluster.DNSZone = e.dnsZone]

\* tags, err := buildCloudupTags(cluster)
TagsStep(st, e) ==
    IF st.err # NoErr THEN st
    ELSE IF e.fail = "buildCloudupTags" THEN [st EXCEPT !.err = e.fail]
    ELSE st

\* completed, err := specBuilder.BuildCompleteSpec(&cluster.Spec, ...)
BuildCompleteSpecStep(st, e) ==
    IF st.err # NoErr THEN st
    ELSE [st EXCEPT !.completed = BuildCompleteSpec(st.cluster, e).completed,
                    !.err = BuildCompleteSpec(st.cluster, e).err]

\* completed.Topology = c.InputCluster.Spec.Topology
CompletedTopologyStep(st) ==
    IF st.err # NoErr THEN st
    ELSE [st EXCEPT !.completed.Topology = st.input.Topology]

\* *fullCluster = *cluster; fullCluster.Spec = *completed;
\* err = fullCluster.Validate(true); c.fullCluster = fullCluster
FullClusterStep(st, e) ==
    IF st.err # NoErr THEN st
    ELSE IF Validate(st.completed, TRUE, e) # NoErr
    THEN [st EXCEPT !.err = "Completed cluster failed validation"]
    ELSE [st EXCEPT !.fullCluster = st.completed]

\* The statements of c.run(), in the order the code has them.
RunSteps ==
    <<"Validate(false)", "JsonMergeStruct", "assignSubnets", "FillDefaults",
      "PerformAssignments", "EtcdClusters", "Stores", "KubernetesVersion",
      "BuildCloud", "Topology", "DNSZone", "buildCloudupTags",
      "BuildCompleteSpec", "completed.Topology", "fullCluster">>

Step(name, st, e) ==
    CASE name = "Validate(false)" -> ValidateInputStep(st, e)
      [] name = "JsonMergeStruct" -> CopyStep(st)
      [] name = "assignSubnets" -> AssignSubnetsStep(st)
      [] name = "FillDefaults" -> FillDefaultsStep(st, e)
      [] name = "PerformAssignments" -> PerformAssignmentsStep(st, e)
      [] name = "EtcdClusters" -> CheckEtcdStep(st)
      [] name = "Stores" -> StoresStep(st, e)
      [] name = "KubernetesVersion" -> NormalizeVersionStep(st)
      [] name = "BuildCloud" -> BuildCloudStep(st, e)
      [] name = "Topology" -> TopologyStep(st)
      [] name = "DNSZone" -> DNSZoneStep(st, e)
      [] name = "buildCloudupTags" -> TagsStep(st, e)
      [] name = "BuildCompleteSpec" -> BuildCompleteSpecStep(st, e)
      [] name = "completed.Topology" -> CompletedTopologyStep(st)
      [] name = "fullCluster" -> FullClusterStep(st, e)

\* A run that goes on to the next statement after an error.
StatementAfterError(name, st, e) ==
    Step(name, [st EXCEPT !.steps = Append(@, name)], e)

\* The statement is reached when none before it returned an error ("if err
\* != nil { return err }"), and is then executed.
Statement(name, st, e) ==
    IF st.err # NoErr
    THEN st
    ELSE Step(name, [st EXCEPT !.steps = Append(@, name)], e)

\* The run from its i-th statement on, in state st; each statement works on
\* the state its predecessor left (s), which is computed once.
RECURSIVE RunFrom(_, _, _)
RunFrom(i, st, e) ==
    IF i > Len(RunSteps)
    THEN st
    ELSE CHOOSE r \in {RunFrom(i + 1, Statement(RunSteps[i], s, e), e) : s \in {st}} : TRUE

\* c.run() with c.InputCluster = input.
run(input, heap, e) == RunFrom(1, StartRun(input, heap), e)

\* PopulateClusterSpec(cluster): the cluster and the error it returns, and
\* what the run left of the caller's cluster and of the heap.
PopulateClusterSpec(input, heap, e) ==
    CHOOSE r \in {[full |-> IF st.err # NoErr THEN Nil ELSE st.fullCluster,
                    err |-> st.err,
                    input |-> st.input,
                    steps |-> st.steps,
                    topologies |-> st.topologies] : st \in {run(input, heap, e)}} : TRUE

(***************************************************************************)
(* SpecPopulate: a caller holds a cluster (cluster) and calls              *)
(* PopulateClusterSpec on it, in an environment that lets every step pass  *)
(* or makes one step fail; it then writes to the cluster it got back or to *)
(* its own, or calls PopulateClusterSpec again on the cluster it got back. *)
(***************************************************************************)
MaxPopulates == 2

\* A cluster with its Topology pointer replaced by what it points to.
View(c, heap) ==
    IF c = Nil THEN Nil
    ELSE [c EXCEPT !.Topology = IF @ = 0 THEN "nil" ELSE heap[@]]

\* KubernetesVersion as the user may write it.
Versions ==
    {<<"1.5.0">>, <<"v", "1.5.0">>, <<" ", "v", "1.5.0", " ">>,
     <<"v", "v", "1.5.0">>, <<"v", " ", "1.5.0">>}

PopulateSubnets ==
    {<<[Zone |-> 1, Type |-> "Public", CIDR |-> EmptyStr]>>,
     <<[Zone |-> 2, Type |-> "Utility", CIDR |-> EmptyStr],
       [Zone |-> 1, Type |-> "Public", CIDR |-> CIDRStr(IPv4(172, 20, 128, 0), 17)]>>}

PopulateEtcd ==
    {<<[Name |-> "main",
        Members |-> <<[Name |-> "a", InstanceGroup |-> "master-a"]>>]>>,
     <<[Name |-> "main",
        Members |-> <<[Name |-> "a", InstanceGroup |-> "master-a"],
                      [Name |-> "b", InstanceGroup |-> "master-b"]>>]>>}

PopulateInputs ==
    {[NoCluster EXCEPT !.NetworkCIDR = CIDRStr(IPv4(172, 20, 0, 0), 16),
                       !.Subnets = sn,
                       !.EtcdClusters = ec,
                       !.NonMasqueradeCIDR = nm,
                       !.KubernetesVersion = v,
                       !.DNSZone = z,
                       !.Topology = t] :
        sn \in PopulateSubnets, ec \in PopulateEtcd,
        nm \in {CIDRStr(IPv4(100, 64, 0, 0), 10), CIDRStr(IPv6(65152), 10), EmptyStr},
        v \in Versions, z \in {"", "user.example.com"}, t \in {0, 1}}

\* The step the environment makes fail, if any.
Failures ==
    {"none", "Validate(false)", "FillDefaults", "PerformAssignments",
     "registry.KeyStore", "registry.SecretStore",
     "secrets path is not cluster readable", "keyStore path is not cluster readable",
     "error parsing ConfigBase", "ConfigBase path is not cluster readable",
     "BuildCloud", "error getting DNS for cloud", "Error determining default DNS zone",
     "buildCloudupTags", "BuildCompleteSpec", "Validate(true)"}

InitPopulate ==
    /\ cluster \in PopulateInputs
    /\ topologies \in IF cluster.Topology = 0 THEN {<<>>} ELSE {<<"public">>, <<"private">>}
    /\ env \in {[fail |-> f, dnsZone |-> "example.com"] : f \in Failures}
    /\ before = View(cluster, topologies)
    /\ fullCluster = Nil
    /\ fullBefore = Nil
    /\ steps = <<>>
    /\ err = NoErr
    /\ op = "init"
    /\ calls = 0
    /\ parent = NoNet
    /\ subnets = NoSubnets
    /\ instanceGroups = {}
    /\ TemplateIdle
    /\ MachineTypeIdle
    /\ TaskIdle

\* fullCluster, err := PopulateClusterSpec(cluster)
Populate ==
    /\ op = "init"
    /\ \E r \in {PopulateClusterSpec(cluster, topologies, env)} :
          /\ cluster' = r.input
          /\ fullCluster' = r.full
          /\ topologies' = r.topologies
          /\ steps' = r.steps
          /\ err' = r.err
    /\ before' = View(cluster, topologies)
    /\ fullBefore' = View(fullCluster, topologies)
    /\ op' = "populate"
    /\ calls' = calls + 1
    /\ UNCHANGED <<parent, subnets, instanceGroups, env>>
    /\ UNCHANGED templateVars
    /\ UNCHANGED machineTypeVars
    /\ UNCHANGED taskVars

\* PopulateClusterSpec called on the cluster the previous call returned, which
\* is now the caller's cluster.
PopulateAgain ==
    /\ op \in {"populate", "repopulate"}
    /\ fullCluster # Nil
    /\ calls < MaxPopulates
    /\ \E r \in {PopulateClusterSpec(fullCluster, topologies, env)} :
          /\ cluster' = r.input
          /\ fullCluster' = r.full
          /\ topologies' = r.topologies
          /\ steps' = r.steps
          /\ err' = r.err
    /\ before' = View(fullCluster, topologies)
    /\ fullBefore' = View(fullCluster, topologies)
    /\ op' = "repopulate"
    /\ calls' = calls + 1
    /\ UNCHANGED <<parent, subnets, instanceGroups, env>>
    /\ UNCHANGED templateVars
    /\ UNCHANGED machineTypeVars
    /\ UNCHANGED taskVars

\* The caller writes to c: its DNSZone, or its Topology through the pointer.
Write(c, heap, field) ==
    IF field = "DNSZone"
    THEN [c |-> [c EXCEPT !.DNSZone = "written.example.com"], topologies |-> heap]
    ELSE [c |-> c, topologies |-> [heap EXCEPT ![c.Topology] = "written"]]

Writable(c) == {"DNSZone"} \cup (IF c.Topology = 0 THEN {} ELSE {"Topology"})

\* The caller writes to the cluster PopulateClusterSpec returned.
MutateResult ==
    /\ op \in {"populate", "repopulate"}
    /\ fullCluster # Nil
    /\ \E field \in Writable(fullCluster) :
          /\ fullCluster' = Write(fullCluster, topologies, field).c
          /\ topologies' = Write(fullCluster, topologies, field).topologies
    /\ before' = View(cluster, topologies)
    /\ fullBefore' = View(fullCluster, topologies)
    /\ op' = "mutate result"
    /\ UNCHANGED <<cluster, err, calls, parent, subnets, instanceGroups, env, steps>>
    /\ UNCHANGED templateVars
    /\ UNCHANGED machineTypeVars
    /\ UNCHANGED taskVars

\* The caller writes to the cluster it passed in.
MutateInput ==
    /\ op \in {"populate", "repopulate"}
    /\ fullCluster # Nil
    /\ \E field \in Writable(cluster) :
          /\ cluster' = Write(cluster, topologies, field).c
          /\ topologies' = Write(cluster, topologies, field).topologies
    /\ before' = View(cluster, topologies)
    /\ fullBefore' = View(fullCluster, topologies)
    /\ op' = "mutate input"
    /\ UNCHANGED <<fullCluster, err, calls, parent, subnets, instanceGroups, env, steps>>
    /\ UNCHANGED templateVars
    /\ UNCHANGED machineTypeVars
    /\ UNCHANGED taskVars

NextPopulate == Populate \/ PopulateAgain \/ MutateResult \/ MutateInput

SpecPopulate == InitPopulate /\ [][NextPopulate]_vars

(***************************************************************************)
(* The AWS tasks (package awstasks).  A *string is a string or NilString,  *)
(* a *bool is "true", "false" or NilString, a pointer to a struct is the   *)
(* struct or Nil, a nil slice is <<>>.  The cloud holds its subnets and    *)
(* load balancers in the order they were created, and `fail', the cloud    *)
(* call that returns an error, if any.                                     *)
(***************************************************************************)
NilString == "nil"

StringValue(p) == IF p = NilString THEN "" ELSE p

BoolValue(p) == p = "true"

RequiredField(field) == "RequiredField " \o field

CannotChangeField(field) == "CannotChange " \o field

\* What a Render returns: the task, the cloud and the target's output after
\* it, its error, and the calls it made on the cloud or the target.
Rendered(e, cl, out, error, called) ==
    [e |-> e, cloud |-> cl, output |-> out, err |-> error, trace |-> called]

\* Subnet.Find that does not read the subnet's availability zone.
SubnetFindWithoutZone(e, cl) ==
    LET found == IF e.ID # NilString
                 THEN SelectSeq(cl.subnets, LAMBDA s : s.SubnetId = e.ID)
                 ELSE SelectSeq(cl.subnets, LAMBDA s : s.Name = e.Name)
    IN  IF cl.fail = "DescribeSubnets"
        THEN [a |-> Nil, e |-> e, err |-> "error listing Subnets"]
        ELSE IF Len(found) = 0
        THEN [a |-> Nil, e |-> e, err |-> NoErr]
        ELSE IF Len(found) # 1
        THEN [a |-> Nil, e |-> e, err |-> "found multiple Subnets matching tags"]
        ELSE LET subnet == found[1]
                 a == [kind |-> "Subnet",
                       Name |-> subnet.Name,
                       ID |-> subnet.SubnetId,
                       VPC |-> subnet.VpcId,
                       AvailabilityZone |-> NilString,
                       CIDR |-> subnet.CidrBlock,
                       Shared |-> e.Shared]
             IN  [a |-> a, e |-> [e EXCEPT !.ID = a.ID], err |-> NoErr]

\* Subnet.Find: a read of the cloud; it sets e.ID when the subnet is found.
SubnetFind(e, cl) ==
    LET found == IF e.ID # NilString
                 THEN SelectSeq(cl.subnets, LAMBDA s : s.SubnetId = e.ID)
                 ELSE SelectSeq(cl.subnets, LAMBDA s : s.Name = e.Name)
    IN  IF cl.fail = "DescribeSubnets"
        THEN [a |-> Nil, e |-> e, err |-> "error listing Subnets"]
        ELSE IF Len(found) = 0
        THEN [a |-> Nil, e |-> e, err |-> NoErr]
        ELSE IF Len(found) # 1
        THEN [a |-> Nil, e |-> e, err |-> "found multiple Subnets matching tags"]
        ELSE LET subnet == found[1]
                 a == [kind |-> "Subnet",
                       Name |-> subnet.Name,
                       ID |-> subnet.SubnetId,
                       VPC |-> subnet.VpcId,
                       AvailabilityZone |-> subnet.AvailabilityZone,
                       CIDR |-> subnet.CidrBlock,
                       Shared |-> e.Shared]
             IN  [a |-> a, e |-> [e EXCEPT !.ID = a.ID], err |-> NoErr]

\* Subnet.CheckChanges without the check of CIDR.
SubnetCheckChangesCIDRFree(a, e, ch) ==
    IF a = Nil
    THEN IF e.VPC = NilString THEN RequiredField("VPC")
         ELSE IF e.CIDR = NilString THEN RequiredField("CIDR")
         ELSE NoErr
    ELSE IF ch.VPC # NilString THEN CannotChangeField("VPC")
         ELSE IF ch.AvailabilityZone # NilString THEN CannotChangeField("AvailabilityZone")
         ELSE NoErr

\* Subnet.CheckChanges
SubnetCheckChanges(a, e, ch) ==
    IF a = Nil
    THEN IF e.VPC = NilString THEN RequiredField("VPC")
         ELSE IF e.CIDR = NilString THEN RequiredField("CIDR")
         ELSE NoErr
    ELSE IF ch.VPC # NilString THEN CannotChangeField("VPC")
         ELSE IF ch.AvailabilityZone # NilString THEN CannotChangeField("AvailabilityZone")
         ELSE IF ch.CIDR # NilString THEN CannotChangeField("CIDR")
         ELSE NoErr

\* t.AddAWSTags(id, t.Cloud.BuildTags(name)): the subnet gets its Name tag.
AddAWSTags(cl, id, name) ==
    [cl EXCEPT !.subnets =
        [i \in DOMAIN @ |-> IF @[i].SubnetId = id THEN [@[i] EXCEPT !.Name = name] ELSE @[i]]]

\* Subnet.RenderAWS
SubnetRenderAWS(cl, out, a, e, ch) ==
    IF BoolValue(e.Shared)
    THEN IF a = Nil
         THEN Rendered(e, cl, out, "Subnet with id not found", <<>>)
         ELSE Rendered(e, cl, out, NoErr, <<>>)
    ELSE IF a = Nil /\ cl.fail = "CreateSubnet"
    THEN Rendered(e, cl, out, "error creating subnet", <<"CreateSubnet">>)
    ELSE LET created == [SubnetId |-> "subnet-" \o ToString(Len(cl.subnets) + 1),
                         VpcId |-> e.VPC,
                         AvailabilityZone |-> e.AvailabilityZone,
                         CidrBlock |-> e.CIDR,
                         Name |-> NilString]
             cl1 == IF a = Nil
                    THEN [cl EXCEPT !.subnets = Append(@, created)]
                    ELSE cl
             e1 == IF a = Nil THEN [e EXCEPT !.ID = created.SubnetId] ELSE e
             called == IF a = Nil THEN <<"CreateSubnet", "AddAWSTags">> ELSE <<"AddAWSTags">>
         IN  IF cl.fail = "AddAWSTags"
             THEN Rendered(e1, cl1, out, "error adding tags", called)
             ELSE Rendered(e1, AddAWSTags(cl1, e1.ID, e1.Name), out, NoErr, called)

\* Subnet.RenderTerraform; e.VPC.TerraformLink() on a nil VPC panics.
SubnetRenderTerraform(cl, out, a, e, ch) ==
    IF BoolValue(e.Shared)
    THEN Rendered(e, cl, out, NoErr, <<>>)
    ELSE IF e.VPC = NilString
    THEN Rendered(e, cl, out, "panic: nil pointer dereference", <<>>)
    ELSE LET tf == [resource |-> "aws_subnet",
                    name |-> e.Name,
                    body |-> [vpc_id |-> e.VPC,
                              cidr_block |-> e.CIDR,
                              availability_zone |-> e.AvailabilityZone,
                              tags |-> e.Name]]
         IN  Rendered(e, cl, out \cup {tf}, NoErr, <<"RenderResource">>)

\* Subnet.TerraformLink: the literal id of a shared subnet, a reference to
\* the emitted resource otherwise; "fatal" where the code calls glog.Fatalf.
SubnetTerraformLink(e) ==
    IF BoolValue(e.Shared)
    THEN IF e.ID = NilString THEN "fatal" ELSE e.ID
    ELSE "${aws_subnet." \o e.Name \o ".id}"

\* utils.StringSlicesEqualIgnoreOrder: the same strings, each as many times.
StringSlicesEqualIgnoreOrder(l, r) ==
    LET Count(s, x) == Cardinality({i \in DOMAIN s : s[i] = x})
    IN  /\ Len(l) = Len(r)
        /\ \A i \in DOMAIN l : Count(l, l[i]) = Count(r, l[i])

\* The comparison of the two slices position by position.
subnetSlicesEqualInOrder(l, r) ==
    IF \E i \in DOMAIN r : r[i].ID = NilString
    THEN FALSE
    ELSE [i \in DOMAIN l |-> l[i].ID] = [i \in DOMAIN r |-> r[i].ID]

\* subnetSlicesEqualIgnoreOrder: not equal when an ID of r is not set.
subnetSlicesEqualIgnoreOrder(l, r) ==
    IF \E i \in DOMAIN r : r[i].ID = NilString
    THEN FALSE
    ELSE StringSlicesEqualIgnoreOrder([i \in DOMAIN l |-> l[i].ID],
                                      [i \in DOMAIN r |-> r[i].ID])

\* LoadBalancer.Find: a read of the cloud; it replaces actual.Subnets by
\* e.Subnets when they differ in order only, and fills e.DNSName,
\* e.HostedZoneId and e.ID when they are not set.
LoadBalancerFind(e, cl) ==
    LET elbName == IF StringValue(e.ID) = "" THEN StringValue(e.Name) ELSE StringValue(e.ID)
        found == SelectSeq(cl.elbs, LAMBDA lb : lb.LoadBalancerName = elbName)
    IN  IF cl.fail = "DescribeLoadBalancers"
        THEN [a |-> Nil, e |-> e, err |-> "error listing ELBs"]
        ELSE IF Len(found) = 0
        THEN [a |-> Nil, e |-> e, err |-> NoErr]
        ELSE IF Len(found) # 1
        THEN [a |-> Nil, e |-> e, err |-> "Found multiple ELBs with name"]
        ELSE LET lb == found[1]
                 lbSubnets == [i \in DOMAIN lb.Subnets |->
                                  [Name |-> NilString, ID |-> lb.Subnets[i], Shared |-> NilString]]
                 a == [kind |-> "LoadBalancer",
                       Name |-> e.Name,
                       ID |-> lb.LoadBalancerName,
                       DNSName |-> lb.DNSName,
                       HostedZoneId |-> lb.CanonicalHostedZoneNameID,
                       Scheme |-> lb.Scheme,
                       Subnets |-> IF subnetSlicesEqualIgnoreOrder(lbSubnets, e.Subnets)
                                   THEN e.Subnets
                                   ELSE lbSubnets,
                       SecurityGroups |-> lb.SecurityGroups,
                       Listeners |-> lb.Listeners,
                       HealthCheck |-> lb.HealthCheck,
                       AccessLog |-> lb.AccessLog,
                       ConnectionDraining |-> lb.ConnectionDraining,
                       ConnectionSettings |-> lb.ConnectionSettings,
                       CrossZoneLoadBalancing |-> lb.CrossZoneLoadBalancing]
             IN  [a |-> a,
                  e |-> [e EXCEPT !.DNSName = IF @ = NilString THEN a.DNSName ELSE @,
                                  !.HostedZoneId = IF @ = NilString THEN a.HostedZoneId ELSE @,
                                  !.ID = IF @ = NilString THEN a.ID ELSE @],
                  err |-> NoErr]

\* LoadBalancer.CheckChanges: required fields when the load balancer is to be
\* created, nothing when it exists.
LoadBalancerCheckChanges(a, e, ch) ==
    IF a # Nil THEN NoErr
    ELSE IF StringValue(e.Name) = "" THEN RequiredField("Name")
    ELSE IF Len(e.SecurityGroups) = 0 THEN RequiredField("SecurityGroups")
    ELSE IF Len(e.Subnets) = 0 THEN RequiredField("Subnets")
    ELSE IF e.AccessLog # Nil /\ e.AccessLog.Enabled = NilString
    THEN RequiredField("Acceslog.Enabled")
    ELSE IF e.AccessLog # Nil /\ BoolValue(e.AccessLog.Enabled)
            /\ e.AccessLog.S3BucketName = NilString
    THEN RequiredField("Acceslog.S3Bucket")
    ELSE IF e.ConnectionDraining # Nil /\ e.ConnectionDraining.Enabled = NilString
    THEN RequiredField("ConnectionDraining.Enabled")
    ELSE IF e.CrossZoneLoadBalancing # Nil /\ e.CrossZoneLoadBalancing.Enabled = NilString
    THEN RequiredField("CrossZoneLoadBalancing.Enabled")
    ELSE NoErr

\* strconv.ParseInt(port, 10, 64) succeeds on these listener ports.
DecimalPorts == {"443", "8080"}

BadPort(listeners) == \E l \in listeners : l.LoadBalancerPort \notin DecimalPorts

\* LoadBalancer.RenderAWS, a == nil: CreateLoadBalancer and the re-find.
LoadBalancerCreate(cl, out, e, elbName) ==
    IF BadPort(e.Listeners)
    THEN Rendered(e, cl, out, "error parsing load balancer listener port", <<>>)
    ELSE IF e.ID = NilString
    THEN Rendered(e, cl, out, "panic: nil pointer dereference", <<>>)
    ELSE IF cl.fail = "CreateLoadBalancer"
    THEN Rendered(e, cl, out, "error creating ELB", <<"CreateLoadBalancer">>)
    ELSE LET lb == [LoadBalancerName |-> elbName,
                    DNSName |-> elbName \o ".elb.amazonaws.com",
                    CanonicalHostedZoneNameID |-> "Z1",
                    Scheme |-> e.Scheme,
                    Subnets |-> [i \in DOMAIN e.Subnets |-> e.Subnets[i].ID],
                    SecurityGroups |-> e.SecurityGroups,
                    Listeners |-> e.Listeners,
                    HealthCheck |-> Nil,
                    AccessLog |-> [Enabled |-> "false", S3BucketName |-> NilString],
                    ConnectionDraining |-> [Enabled |-> "false"],
                    ConnectionSettings |-> [IdleTimeout |-> NilString],
                    CrossZoneLoadBalancing |-> [Enabled |-> "false"],
                    Name |-> NilString]
         IN  Rendered([e EXCEPT !.DNSName = lb.DNSName,
                                !.ID = elbName,
                                !.HostedZoneId = lb.CanonicalHostedZoneNameID],
                      [cl EXCEPT !.elbs = Append(@, lb)], out, NoErr,
                      <<"CreateLoadBalancer", "DescribeLoadBalancers">>)

\* An update that sets the listeners of the load balancer to those of the diff.
LoadBalancerUpdateReplacing(cl, out, e, ch, elbName) ==
    IF ch.Subnets # <<>>
    THEN Rendered(e, cl, out, "subnet changes on LoadBalancer not yet implemented", <<>>)
    ELSE IF ch.Listeners = {}
    THEN Rendered(e, cl, out, NoErr, <<>>)
    ELSE IF BadPort(ch.Listeners)
    THEN Rendered(e, cl, out, "error parsing load balancer listener port", <<>>)
    ELSE IF cl.fail = "CreateLoadBalancerListeners"
    THEN Rendered(e, cl, out, "error creating LoadBalancerListeners",
                  <<"CreateLoadBalancerListeners">>)
    ELSE Rendered(e,
                  [cl EXCEPT !.elbs =
                      [i \in DOMAIN @ |->
                          IF @[i].LoadBalancerName = elbName
                          THEN [@[i] EXCEPT !.Listeners = ch.Listeners]
                          ELSE @[i]]],
                  out, NoErr, <<"CreateLoadBalancerListeners">>)

\* LoadBalancer.RenderAWS, a != nil: a change of Subnets is an error here,
\* a change of Listeners goes to CreateLoadBalancerListeners.
LoadBalancerUpdate(cl, out, e, ch, elbName) ==
    IF ch.Subnets # <<>>
    THEN Rendered(e, cl, out, "subnet changes on LoadBalancer not yet implemented", <<>>)
    ELSE IF ch.Listeners = {}
    THEN Rendered(e, cl, out, NoErr, <<>>)
    ELSE IF BadPort(ch.Listeners)
    THEN Rendered(e, cl, out, "error parsing load balancer listener port", <<>>)
    ELSE IF cl.fail = "CreateLoadBalancerListeners"
    THEN Rendered(e, cl, out, "error creating LoadBalancerListeners",
                  <<"CreateLoadBalancerListeners">>)
    ELSE Rendered(e,
                  [cl EXCEPT !.elbs =
                      [i \in DOMAIN @ |->
                          IF @[i].LoadBalancerName = elbName
                          THEN [@[i] EXCEPT !.Listeners = @ \cup ch.Listeners]
                          ELSE @[i]]],
                  out, NoErr, <<"CreateLoadBalancerListeners">>)

\* ConfigureHealthCheck whenever the health check is expected, changed or not.
LoadBalancerHealthCheckAlways(r, ch) ==
    IF r.err # NoErr \/ r.e.HealthCheck = Nil
    THEN r
    ELSE IF r.cloud.fail = "ConfigureHealthCheck"
    THEN [r EXCEPT !.err = "error configuring health checks on ELB",
                   !.trace = Append(@, "ConfigureHealthCheck")]
    ELSE [r EXCEPT !.cloud.elbs =
                      [i \in DOMAIN @ |->
                          IF @[i].LoadBalancerName = r.e.ID
                          THEN [@[i] EXCEPT !.HealthCheck = r.e.HealthCheck]
                          ELSE @[i]],
                   !.trace = Append(@, "ConfigureHealthCheck")]

\* LoadBalancer.RenderAWS: ConfigureHealthCheck when the health check is
\* expected and changed.
LoadBalancerHealthCheck(r, ch) ==
    IF r.err # NoErr \/ ch.HealthCheck = Nil \/ r.e.HealthCheck = Nil
    THEN r
    ELSE IF r.cloud.fail = "ConfigureHealthCheck"
    THEN [r EXCEPT !.err = "error configuring health checks on ELB",
                   !.trace = Append(@, "ConfigureHealthCheck")]
    ELSE [r EXCEPT !.cloud.elbs =
                      [i \in DOMAIN @ |->
                          IF @[i].LoadBalancerName = r.e.ID
                          THEN [@[i] EXCEPT !.HealthCheck = r.e.HealthCheck]
                          ELSE @[i]],
                   !.trace = Append(@, "ConfigureHealthCheck")]

\* t.AddELBTags(*e.ID, t.Cloud.BuildTags(e.Name))
AddELBTags(r) ==
    IF r.err # NoErr
    THEN r
    ELSE IF r.cloud.fail = "AddELBTags"
    THEN [r EXCEPT !.err = "error adding tags", !.trace = Append(@, "AddELBTags")]
    ELSE [r EXCEPT !.cloud.elbs =
                      [i \in DOMAIN @ |->
                          IF @[i].LoadBalancerName = r.e.ID
                          THEN [@[i] EXCEPT !.Name = r.e.Name]
                          ELSE @[i]],
                   !.trace = Append(@, "AddELBTags")]

\* LoadBalancer.RenderAWS
LoadBalancerRenderAWS(cl, out, a, e, ch) ==
    LET elbName == IF e.ID # NilString THEN e.ID ELSE e.Name
    IN  IF elbName = NilString
        THEN Rendered(e, cl, out, RequiredField("ID"), <<>>)
        ELSE AddELBTags(LoadBalancerHealthCheck(
                 IF a = Nil
                 THEN LoadBalancerCreate(cl, out, e, elbName)
                 ELSE LoadBalancerUpdate(cl, out, e, ch, elbName), ch))

\* The orders in which a range over a Go map may yield its entries: every
\* enumeration of them.
MapOrders(m) ==
    {s \in [1..Cardinality(m) -> m] : \A i, j \in DOMAIN s : s[i] = s[j] => i = j}

\* LoadBalancer.RenderTerraform: the resource is built from e alone; its
\* listener blocks are appended in the order the range over e.Listeners
\* yields them (order).
LoadBalancerRenderTerraform(cl, out, a, e, ch, order) ==
    LET links == [i \in DOMAIN e.Subnets |-> SubnetTerraformLink(e.Subnets[i])]
        tf == [resource |-> "aws_elb",
               name |-> e.Name,
               body |-> [name |-> IF e.ID # NilString THEN e.ID ELSE e.Name,
                         internal |-> StringValue(e.Scheme) = "internal",
                         subnets |-> links,
                         security_groups |-> e.SecurityGroups,
                         listener |-> order,
                         health_check |-> e.HealthCheck,
                         access_logs |-> e.AccessLog,
                         connection_draining |-> e.ConnectionDraining,
                         idle_timeout |-> e.ConnectionSettings,
                         cross_zone_load_balancing |-> e.CrossZoneLoadBalancing]]
    IN  IF \E i \in DOMAIN links : links[i] = "fatal"
        THEN Rendered(e, cl, out, "ID must be set, if subnet is shared", <<>>)
        ELSE IF BadPort(e.Listeners)
        THEN Rendered(e, cl, out, "error parsing load balancer listener port", <<>>)
        ELSE Rendered(e, cl, out \cup {tf}, NoErr, <<"RenderResource">>)

\* The nil value of a task's field.
FieldNil(f) ==
    IF f \in {"Subnets", "SecurityGroups"} THEN <<>>
    ELSE IF f = "Listeners" THEN {}
    ELSE IF f \in {"HealthCheck", "AccessLog", "ConnectionDraining",
                   "ConnectionSettings", "CrossZoneLoadBalancing"} THEN Nil
    ELSE NilString

\* Two values of a field are equal; references to tasks are compared by ID.
FieldEqual(f, x, y) ==
    IF f = "Subnets"
    THEN /\ Len(x) = Len(y)
         /\ \A i \in DOMAIN x : x[i].ID = y[i].ID /\ x[i].ID # NilString
    ELSE x = y

\* The diff of a task: every expected field when nothing was found, else the
\* expected value of each field that is set and differs from the actual one.
BuildChanges(a, e) ==
    IF a = Nil
    THEN e
    ELSE [f \in DOMAIN e |->
            IF f = "kind" THEN e[f]
            ELSE IF e[f] = FieldNil(f) \/ FieldEqual(f, a[f], e[f]) THEN FieldNil(f)
            ELSE e[f]]

Changed(ch) == \E f \in DOMAIN ch \ {"kind"} : ch[f] # FieldNil(f)

Find(e, cl) ==
    IF e.kind = "Subnet" THEN SubnetFind(e, cl) ELSE LoadBalancerFind(e, cl)

CheckChanges(a, e, ch) ==
    IF e.kind = "Subnet"
    THEN SubnetCheckChanges(a, e, ch)
    ELSE LoadBalancerCheckChanges(a, e, ch)

Render(tgt, cl, out, a, e, ch, order) ==
    IF e.kind = "Subnet"
    THEN IF tgt = "AWS"
         THEN SubnetRenderAWS(cl, out, a, e, ch)
         ELSE SubnetRenderTerraform(cl, out, a, e, ch)
    ELSE IF tgt = "AWS"
         THEN LoadBalancerRenderAWS(cl, out, a, e, ch)
         ELSE LoadBalancerRenderTerraform(cl, out, a, e, ch, order)

\* The cloud call Find makes.
Describe(e) == IF e.kind = "Subnet" THEN "DescribeSubnets" ELSE "DescribeLoadBalancers"

\* fi.DefaultDeltaRunMethod: Find, diff, CheckChanges, and the target's Render
\* when nothing was found or something changed.
DefaultDeltaRunMethod(e, cl, out, tgt, order) ==
    LET f == Find(e, cl)
        ch == BuildChanges(f.a, f.e)
        chk == CheckChanges(f.a, f.e, ch)
        r == Render(tgt, cl, out, f.a, f.e, ch, order)
        Result(e1, a, c, cl1, out1, error, called) ==
            [e |-> e1, a |-> a, changes |-> c, cloud |-> cl1, output |-> out1,
             err |-> error, trace |-> called]
    IN  IF f.err # NoErr
        THEN Result(f.e, Nil, Nil, cl, out, f.err, <<"Find", Describe(e)>>)
        ELSE IF chk # NoErr
        THEN Result(f.e, f.a, ch, cl, out, chk, <<"Find", Describe(e), "CheckChanges">>)
        ELSE IF f.a = Nil \/ Changed(ch)
        THEN Result(r.e, f.a, ch, r.cloud, r.output, r.err,
                    <<"Find", Describe(e), "CheckChanges", "Render" \o tgt>> \o r.trace)
        ELSE Result(f.e, f.a, ch, cl, out, NoErr, <<"Find", Describe(e), "CheckChanges">>)

(***************************************************************************)
(* SpecTasks: one task, a Subnet or a LoadBalancer, is run against a cloud *)
(* that is empty or holds the resource already, with the AWS or the        *)
(* Terraform target; between two runs the user may change a field of the   *)
(* task.                                                                   *)
(***************************************************************************)
MaxRuns == 2

NoCloud == [subnets |-> <<>>, elbs |-> <<>>, fail |-> "none"]

VPCs == {"vpc-1", "vpc-2", NilString}

AvailabilityZones == {"us-test-1a", "us-test-1b", NilString}

CIDRs == {"172.20.32.0/19", "172.20.64.0/19", NilString}

SubnetTasks ==
    {[kind |-> "Subnet", Name |-> "us-test-1a.example.com", ID |-> id, VPC |-> vpc,
      AvailabilityZone |-> az, CIDR |-> cidr, Shared |-> shared] :
        id \in {NilString, "subnet-1", "subnet-9"}, vpc \in VPCs, az \in AvailabilityZones,
        cidr \in CIDRs, shared \in {NilString, "true"}}

\* The subnets of the cloud: none, or the one of the task, with or without
\* its Name tag.
CloudSubnets ==
    {<<>>} \cup
    {<<[SubnetId |-> "subnet-1", VpcId |-> "vpc-1", AvailabilityZone |-> "us-test-1a",
        CidrBlock |-> "172.20.32.0/19", Name |-> name]>> :
        name \in {"us-test-1a.example.com", NilString}}

SubnetRef(name, id, shared) == [Name |-> name, ID |-> id, Shared |-> shared]

SubnetLists ==
    LET a == SubnetRef("a", "subnet-1", NilString)
        b == SubnetRef("b", "subnet-2", NilString)
        c == SubnetRef("c", "subnet-3", NilString)
    IN  {<<>>, <<a>>, <<a, b>>, <<b, a>>, <<a, c>>,
         <<SubnetRef("d", NilString, NilString)>>,
         <<SubnetRef("e", NilString, "true")>>}

Listener(port, instancePort) == [LoadBalancerPort |-> port, InstancePort |-> instancePort]

LoadBalancerBase ==
    [kind |-> "LoadBalancer", Name |-> "api.example.com", ID |-> "api-example-com",
     DNSName |-> NilString, HostedZoneId |-> NilString,
     Subnets |-> <<>>, SecurityGroups |-> <<"sg-1">>,
     Listeners |-> {Listener("443", 443)}, Scheme |-> NilString,
     HealthCheck |-> Nil, AccessLog |-> Nil, ConnectionDraining |-> Nil,
     ConnectionSettings |-> Nil, CrossZoneLoadBalancing |-> Nil]

LoadBalancerTasks ==
    {[LoadBalancerBase EXCEPT !.ID = id, !.Subnets = sn, !.SecurityGroups = sg,
                              !.Listeners = ls, !.HealthCheck = hc] :
        id \in {NilString, "api-example-com"}, sn \in SubnetLists,
        sg \in {<<>>, <<"sg-1">>},
        ls \in {{Listener("443", 443)}, {Listener("8080", 8080)},
                {Listener("443", 443), Listener("8080", 8080)}, {Listener("https", 443)}},
        hc \in {Nil, [Target |-> "TCP:443"]}}
    \cup
    {[LoadBalancerBase EXCEPT !.Subnets = <<SubnetRef("a", "subnet-1", NilString)>>,
                              !.AccessLog = al, !.ConnectionDraining = cd,
                              !.CrossZoneLoadBalancing = cz, !.Scheme = "internal"] :
        al \in {Nil, [Enabled |-> NilString, S3BucketName |-> NilString],
                [Enabled |-> "true", S3BucketName |-> NilString],
                [Enabled |-> "true", S3BucketName |-> "logs"]},
        cd \in {Nil, [Enabled |-> NilString]},
        cz \in {Nil, [Enabled |-> NilString]}}

\* The load balancers of the cloud: none, or the one of the task on
\* subnet-1 and subnet-2.
CloudELBs ==
    {<<>>,
     <<[LoadBalancerName |-> "api-example-com",
        DNSName |-> "api-example-com.elb.amazonaws.com",
        CanonicalHostedZoneNameID |-> "Z1",
        Scheme |-> NilString,
        Subnets |-> <<"subnet-1", "subnet-2">>,
        SecurityGroups |-> <<"sg-1">>,
        Listeners |-> {Listener("443", 443)},
        HealthCheck |-> Nil,
        AccessLog |-> [Enabled |-> "false", S3BucketName |-> NilString],
        ConnectionDraining |-> [Enabled |-> "false"],
        ConnectionSettings |-> [IdleTimeout |-> NilString],
        CrossZoneLoadBalancing |-> [Enabled |-> "false"],
        Name |-> "api.example.com"]>>}

\* A run starts with a task and the cloud it meets.
TaskAndCloud ==
    {[task |-> t, cloud |-> [NoCloud EXCEPT !.subnets = s, !.fail = f]] :
        t \in SubnetTasks, s \in CloudSubnets,
        f \in {"none", "DescribeSubnets", "CreateSubnet", "AddAWSTags"}}
    \cup
    {[task |-> t, cloud |-> [NoCloud EXCEPT !.elbs = b, !.fail = f]] :
        t \in LoadBalancerTasks, b \in CloudELBs,
        f \in {"none", "DescribeLoadBalancers", "CreateLoadBalancer",
               "CreateLoadBalancerListeners", "ConfigureHealthCheck", "AddELBTags"}}

InitTasks ==
    /\ \E tc \in TaskAndCloud : task = tc.task /\ cloud = tc.cloud
    /\ target \in {"AWS", "Terraform"}
    /\ cloudBefore = cloud
    /\ actual = Nil
    /\ changes = Nil
    /\ trace = <<>>
    /\ output = {}
    /\ runs = <<>>
    /\ err = NoErr
    /\ op = "init"
    /\ calls = 0
    /\ cluster = NoCluster
    /\ before = NoCluster
    /\ parent = NoNet
    /\ subnets = NoSubnets
    /\ instanceGroups = {}
    /\ TemplateIdle
    /\ MachineTypeIdle
    /\ PopulateIdle

\* task.Run(c), with a target of its own.
Run ==
    /\ calls < MaxRuns
    /\ \E order \in (IF task.kind = "LoadBalancer" THEN MapOrders(task.Listeners) ELSE {<<>>}) :
       \E r \in {DefaultDeltaRunMethod(task, cloud, {}, target, order)} :
          /\ task' = r.e
          /\ runs' = Append(runs, [task |-> task, err |-> r.err, output |-> r.output,
                                   trace |-> r.trace])
          /\ actual' = r.a
          /\ changes' = r.changes
          /\ cloud' = r.cloud
          /\ output' = r.output
          /\ err' = r.err
          /\ trace' = r.trace
    /\ cloudBefore' = cloud
    /\ op' = "run"
    /\ calls' = calls + 1
    /\ UNCHANGED <<cluster, before, parent, subnets, instanceGroups, target>>
    /\ UNCHANGED templateVars
    /\ UNCHANGED machineTypeVars
    /\ UNCHANGED populateVars

\* Between two runs the user changes the task: a Subnet's VPC,
\* AvailabilityZone or CIDR, a LoadBalancer's Subnets.
ModifyTask ==
    /\ op = "run"
    /\ err = NoErr
    /\ calls < MaxRuns
    /\ \/ /\ task.kind = "Subnet"
          /\ \E vpc \in VPCs, az \in AvailabilityZones, cidr \in CIDRs :
                /\ NilString \notin {vpc, az, cidr}
                /\ task' = [task EXCEPT !.VPC = vpc, !.AvailabilityZone = az, !.CIDR = cidr]
       \/ /\ task.kind = "LoadBalancer"
          /\ \E sn \in SubnetLists : task' = [task EXCEPT !.Subnets = sn]
    /\ task' # task
    /\ op' = "modify"
    /\ UNCHANGED <<cluster, before, err, calls, parent, subnets, instanceGroups>>
    /\ UNCHANGED <<target, cloud, cloudBefore, actual, changes, trace, output, runs>>
    /\ UNCHANGED templateVars
    /\ UNCHANGED machineTypeVars
    /\ UNCHANGED populateVars

NextTasks == Run \/ ModifyTask

SpecTasks == InitTasks /\ [][NextTasks]_vars

(***************************************************************************)
(* populate_instancegroup_spec.go: defaultMasterMachineType, as            *)
(* Test_defaultMasterMachineType calls it.  A zone name is the sequence of *)
(* its characters.                                                         *)
(***************************************************************************)

\* strings.HasPrefix(s, prefix)
HasPrefix(s, prefix) ==
    /\ Len(s) >= Len(prefix)
    /\ \A i \in 1..Len(prefix) : s[i] = prefix[i]

UsEast2 == <<"u", "s", "-", "e", "a", "s", "t", "-", "2">>

\* The zone table with the two machine types turned around.
defaultMasterMachineTypeSwapped(c) ==
    IF \E i \in 1..Len(c.Subnets) : HasPrefix(c.Subnets[i].Zone, UsEast2)
    THEN "m3.medium"
    ELSE "c4.large"

\* The zone table of the master machine type: us-east-2* has no m3
\* instances and gets c4.large, everything else m3.medium.
defaultMasterMachineType(c) ==
    IF \E i \in 1..Len(c.Subnets) : HasPrefix(c.Subnets[i].Zone, UsEast2)
    THEN "c4.large"
    ELSE "m3.medium"

\* SpecMachineType: clusters of one region with up to MaxZoneSubnets subnets.
MaxZoneSubnets == 2

Regions ==
    {<<"u", "s", "-", "e", "a", "s", "t", "-", "1">>,
     UsEast2,
     <<"u", "s", "-", "w", "e", "s", "t", "-", "2">>,
     <<"e", "u", "-", "w", "e", "s", "t", "-", "1">>,
     <<"e", "u", "-", "w", "e", "s", "t", "-", "2">>,
     <<"u", "s", "-", "t", "e", "s", "t", "-", "1">>}

ZoneLetters == {"a", "b", "c"}

\* {Name: "subnet-" + zone, Zone: zone}
ZoneSubnet(zone) == [Name |-> <<"s", "u", "b", "n", "e", "t", "-">> \o zone, Zone |-> zone]

ZoneSubnetLists(region) ==
    UNION {[1..n -> {ZoneSubnet(Append(region, l)) : l \in ZoneLetters}] :
             n \in 1..MaxZoneSubnets}

InitMachineType ==
    /\ cluster \in {[NoCluster EXCEPT !.Subnets = sn] :
                      sn \in UNION {ZoneSubnetLists(region) : region \in Regions}}
    /\ before = cluster
    /\ err = NoErr
    /\ op = "init"
    /\ calls = 0
    /\ parent = NoNet
    /\ subnets = NoSubnets
    /\ instanceGroups = {}
    /\ machineType = ""
    /\ TemplateIdle
    /\ PopulateIdle
    /\ TaskIdle

\* actual := defaultMasterMachineType(cluster)
CallDefaultMasterMachineType ==
    /\ op = "init"
    /\ machineType' = defaultMasterMachineType(cluster)
    /\ op' = "machinetype"
    /\ calls' = calls + 1
    /\ UNCHANGED <<cluster, before, err, parent, subnets, instanceGroups>>
    /\ UNCHANGED templateVars
    /\ UNCHANGED populateVars
    /\ UNCHANGED taskVars

NextMachineType == CallDefaultMasterMachineType

SpecMachineType == InitMachineType /\ [][NextMachineType]_vars

(***************************************************************************)
(* Properties of splitInto8Subnets                                         *)
(***************************************************************************)

\* The network n is a subnet of the network p: a longer prefix of the same
\* family whose network address p contains.
IsNetwork(n) == n.Mask # NilMask /\ MaskIP(n.IP, n.Mask) = n.IP

Within(n, p) ==
    /\ IsNetwork(n) /\ IsNetwork(p)
    /\ n.Mask.ones >= p.Mask.ones
    /\ Contains(p, n.IP)

Disjoint(a, b) ==
    /\ IsNetwork(a) /\ IsNetwork(b)
    /\ ~Contains(a, b.IP)
    /\ ~Contains(b, a.IP)

\* a < b as unsigned 32-bit numbers.
IPLess(a, b) == a.hi < b.hi \/ (a.hi = b.hi /\ a.lo < b.lo)

\* What the allocator promises of a split: 8 children of prefix length
\* p + 3, in strictly increasing address order, pairwise disjoint, all inside
\* the parent.
GoodSplit(p, s) ==
    /\ Len(s) = 8
    /\ \A i \in 1..8 :
          /\ s[i].Mask = [ones |-> p.Mask.ones + 3, bits |-> IPv4Bits]
          /\ Within(s[i], p)
    /\ \A i \in 1..7 : IPLess(s[i].IP, s[i + 1].IP)
    /\ \A i, j \in 1..8 : i # j => Disjoint(s[i], s[j])

\* C2 as claimed: splitInto8Subnets on any IPv4 parent returns 8 children of
\* prefix length parent.prefix + 3, increasing, disjoint and inside the
\* parent; on a non-IPv4 parent it returns an error and no children.
C2_SplitAnyParent ==
    calls = 1 =>
        IF To4(parent.IP)
        THEN err = NoErr /\ GoodSplit(parent, subnets)
        ELSE err # NoErr /\ subnets = <<>>

\* C2 as amended: the same for every IPv4 parent of prefix length at most 29
\* (one that has 3 host bits to give); on a non-IPv4 parent an error and no
\* children.
C2_SplitParentUpTo29 ==
    calls = 1 =>
        IF To4(parent.IP)
        THEN err = NoErr /\ Len(subnets) = 8
             /\ (parent.Mask.ones <= IPv4Bits - 3 => GoodSplit(parent, subnets))
        ELSE err # NoErr /\ subnets = <<>>

\* C2's case: 172.20.0.0/16 was split and its child number 1 is 172.20.32.0/19.
C2_Witness ==
    /\ calls = 1
    /\ parent = [IP |-> IPv4(172, 20, 0, 0), Mask |-> CIDRMask(16, IPv4Bits)]
    /\ subnets[2] = [IP |-> IPv4(172, 20, 32, 0), Mask |-> CIDRMask(19, IPv4Bits)]
    /\ GoodSplit(parent, subnets)

(***************************************************************************)
(* Properties of assignCIDRsToSubnets, stated of the state right after a   *)
(* call: before is the cluster the call was given, cluster what it left.   *)
(***************************************************************************)

\* Two CIDRs overlap iff either contains the other's network address.
Overlap(a, b) == Contains(a, b.IP) \/ Contains(b, a.IP)

\* The same of two CIDR strings; a string that is no CIDR overlaps nothing.
StrOverlap(s, t) == ParseOK(s) /\ ParseOK(t) /\ Overlap(ParseCIDR(s), ParseCIDR(t))

\* The subnets that had a CIDR when the call began (the user's), and those
\* the call gave one.
UserSupplied == {i \in 1..Len(before.Subnets) : before.Subnets[i].CIDR # EmptyStr}

AutoAssigned ==
    {i \in 1..Len(before.Subnets) :
        before.Subnets[i].CIDR = EmptyStr /\ cluster.Subnets[i].CIDR # EmptyStr}

\* The call went as far as the pools: some subnet lacked a CIDR, NetworkCIDR
\* is an IPv4 CIDR, every subnet has a known type and every CIDR parses.
Assigning ==
    /\ op = "assign"
    /\ UserSupplied # 1..Len(before.Subnets)
    /\ ParseOK(before.NetworkCIDR) /\ To4(before.NetworkCIDR.ip)
    /\ \A i \in 1..Len(before.Subnets) :
          /\ before.Subnets[i].Type \in BigTypes \cup LittleTypes
          /\ i \in UserSupplied => ParseOK(before.Subnets[i].CIDR)

\* big[0..7] of NetworkCIDR, and those of them that overlap no CIDR of the
\* user's, in address order.
BigOf(c) == splitInto8Subnets(ParseCIDR(c.NetworkCIDR)).subnets

FreeBig ==
    SelectSeq(BigOf(before),
              LAMBDA b : \A j \in UserSupplied :
                            ~Overlap(ParseCIDR(before.Subnets[j].CIDR), b))

\* The Public and Private subnets that had no CIDR.
EmptyBig ==
    {i \in 1..Len(before.Subnets) \ UserSupplied : before.Subnets[i].Type \in BigTypes}

EmptyLittle ==
    {i \in 1..Len(before.Subnets) \ UserSupplied : before.Subnets[i].Type \in LittleTypes}

\* C1 as claimed: when the assignment succeeds, every subnet has a CIDR, every
\* subnet CIDR lies inside NetworkCIDR, and the subnet CIDRs are pairwise
\* non-overlapping.
C1_AssignedInsideAndDisjoint ==
    (op = "assign" /\ err = NoErr) =>
        /\ \A i \in 1..Len(cluster.Subnets) :
              /\ cluster.Subnets[i].CIDR # EmptyStr
              /\ ParseOK(cluster.Subnets[i].CIDR)
              /\ Within(ParseCIDR(cluster.Subnets[i].CIDR), ParseCIDR(cluster.NetworkCIDR))
        /\ \A i, j \in 1..Len(cluster.Subnets) :
              i # j => ~StrOverlap(cluster.Subnets[i].CIDR, cluster.Subnets[j].CIDR)

\* Of the subnets S taken in ascending zone order: those of the zone of
\* subnet i, and the positions they fill, the ones that follow the positions
\* of the subnets of earlier zones.
SameZone(S, i) == {j \in S : before.Subnets[j].Zone = before.Subnets[i].Zone}

Positions(S, i) ==
    LET earlier == Cardinality({j \in S : before.Subnets[j].Zone < before.Subnets[i].Zone})
    IN  (earlier + 1)..(earlier + Cardinality(SameZone(S, i)))

\* C3: the Public and Private subnets without a CIDR receive, in ascending
\* zone order, the non-reserved big children in address order, the first of
\* them (the little pool's) left out: the subnets of one zone hold exactly the
\* children at that zone's positions, and none holds the little pool's child.
\* With more such subnets than remaining big children the call fails for
\* insufficient (big) CIDRs.  NetworkCIDR 172.20.0.0/16 with one Public
\* subnet yields 172.20.32.0/19.
C3_BigPoolInZoneOrder ==
    /\ (Assigning /\ FreeBig # <<>>) =>
          LET R == Tail(FreeBig)
              n == Cardinality(EmptyBig)
          IN  IF n <= Len(R)
              THEN /\ err # "insufficient (big) CIDRs"
                   /\ \A i \in EmptyBig :
                         Cardinality({j \in SameZone(EmptyBig, i) :
                                         cluster.Subnets[j].CIDR = cluster.Subnets[i].CIDR})
                            = Cardinality({k \in Positions(EmptyBig, i) :
                                              String(R[k]) = cluster.Subnets[i].CIDR})
                   /\ IsNetwork(FreeBig[1]) =>
                         \A i \in EmptyBig :
                            ~StrOverlap(cluster.Subnets[i].CIDR, String(FreeBig[1]))
              ELSE err = "insufficient (big) CIDRs"
    /\ (/\ op = "assign"
        /\ before.NetworkCIDR = CIDRStr(IPv4(172, 20, 0, 0), 16)
        /\ before.Subnets = <<[Zone |-> 1, Type |-> "Public", CIDR |-> EmptyStr]>>)
          => cluster.Subnets[1].CIDR = CIDRStr(IPv4(172, 20, 32, 0), 19)

\* C3's case: two Public or Private subnets without a CIDR, the one of the
\* later zone first in the list, were assigned the big children that follow
\* the little pool's, while a CIDR of the user's reserved others.
C3_Witness ==
    /\ Assigning
    /\ \E i, j \in EmptyBig \cap AutoAssigned :
          /\ i < j
          /\ before.Subnets[i].Zone > before.Subnets[j].Zone
          /\ cluster.Subnets[j].CIDR = CIDRStr(IPv4(172, 20, 96, 0), 19)
          /\ cluster.Subnets[i].CIDR = CIDRStr(IPv4(172, 20, 128, 0), 19)
    /\ UserSupplied # {}

\* C3's other case: the big pool ran out.
C3_WitnessInsufficient ==
    /\ Assigning
    /\ err = "insufficient (big) CIDRs"
    /\ AutoAssigned # {}

\* C4 as claimed: the Utility subnets without a CIDR are assigned only from
\* little[1..7], where little = split8(big[0]) of NetworkCIDR; little[0] is
\* never assigned.
C4_LittleZeroReserved ==
    (Assigning /\ err = NoErr) =>
        LET little == splitInto8Subnets(BigOf(before)[1]).subnets
        IN  \A i \in EmptyLittle :
               /\ cluster.Subnets[i].CIDR # String(little[1])
               /\ \E k \in 2..8 : cluster.Subnets[i].CIDR = String(little[k])

\* C5: no CIDR the call assigned overlaps a CIDR of the user's; and when each
\* of the 8 big children overlaps some CIDR of the user's, the call fails and
\* assigns nothing.
C5_NoOverlapWithUser ==
    /\ op = "assign" =>
          \A i \in AutoAssigned : \A j \in UserSupplied :
              ~StrOverlap(cluster.Subnets[i].CIDR, before.Subnets[j].CIDR)
    /\ (Assigning /\ FreeBig = <<>>) => (err # NoErr /\ cluster = before)

\* C5's case: beside the user's 172.20.0.7/18, which reserves big[0] and
\* big[1], a Utility subnet was assigned from big[2] and a Public or Private
\* one was assigned big[3].
C5_Witness ==
    /\ Assigning
    /\ \E j \in UserSupplied : before.Subnets[j].CIDR = CIDRStr(IPv4(172, 20, 0, 7), 18)
    /\ \E i \in AutoAssigned : cluster.Subnets[i].CIDR = CIDRStr(IPv4(172, 20, 96, 0), 19)
    /\ \E i \in AutoAssigned : cluster.Subnets[i].CIDR = CIDRStr(IPv4(172, 20, 64, 0), 22)

\* C5's other case: every big child was reserved.
C5_WitnessAllReserved == Assigning /\ FreeBig = <<>>

\* C6: a call leaves every CIDR that was set unchanged (and the subnets'
\* number, zones and types), and a call on the output of a successful call
\* changes nothing.
C6_Stable ==
    [][op' = "assign" =>
          /\ Len(cluster'.Subnets) = Len(cluster.Subnets)
          /\ cluster'.NetworkCIDR = cluster.NetworkCIDR
          /\ \A i \in 1..Len(cluster.Subnets) :
                /\ cluster'.Subnets[i].Zone = cluster.Subnets[i].Zone
                /\ cluster'.Subnets[i].Type = cluster.Subnets[i].Type
                /\ cluster.Subnets[i].CIDR # EmptyStr
                      => cluster'.Subnets[i].CIDR = cluster.Subnets[i].CIDR
          /\ (op = "assign" /\ err = NoErr) => (cluster' = cluster /\ err' = NoErr)]_vars

\* C6's case: a second call, after the user added a subnet to the output of
\* the first, filled the new subnet beside a CIDR of the user's and a CIDR
\* the first call had assigned.
C6_Witness ==
    /\ calls = 2 /\ op = "assign" /\ err = NoErr
    /\ AutoAssigned # {}
    /\ \E j \in UserSupplied : before.Subnets[j] \in UserSubnets
    /\ \E j \in UserSupplied : before.Subnets[j] \notin UserSubnets

\* C6's other case: a second call on the output of a successful first call.
C6_WitnessRerun ==
    /\ calls = 2 /\ op = "assign" /\ err = NoErr
    /\ before = cluster
    /\ \E j \in UserSupplied : before.Subnets[j] \notin UserSubnets

(***************************************************************************)
(* Properties of the etcd check                                            *)
(***************************************************************************)
EtcdIndices == 1..Len(cluster.EtcdClusters)

MemberGroups(etcd) == {etcd.Members[i].InstanceGroup : i \in 1..Len(etcd.Members)}

\* Nothing but the number of its members can be held against the etcd cluster.
WellFormedEtcd(etcd) ==
    /\ etcd.Name # ""
    /\ \A i \in 1..Len(etcd.Members) :
          etcd.Members[i].Name # "" /\ etcd.Members[i].InstanceGroup # ""
    /\ Cardinality(MemberGroups(etcd)) = Len(etcd.Members)

\* C7: a cluster passes only if every etcd cluster has an odd number of
\* distinct member instance groups; the first etcd cluster with an even
\* number of them (zero included) fails the run with the quorum error, as do
\* two masters in two zones.
C7_OddQuorum ==
    op = "etcd" =>
        /\ err = NoErr =>
              \A e \in EtcdIndices :
                 Cardinality(MemberGroups(cluster.EtcdClusters[e])) % 2 = 1
        /\ \A e \in EtcdIndices :
              (/\ WellFormedEtcd(cluster.EtcdClusters[e])
               /\ Cardinality(MemberGroups(cluster.EtcdClusters[e])) % 2 = 0
               /\ \A d \in 1..(e - 1) :
                     /\ WellFormedEtcd(cluster.EtcdClusters[d])
                     /\ Cardinality(MemberGroups(cluster.EtcdClusters[d])) % 2 = 1)
                 => err = "There should be an odd number of master-zones"
        /\ cluster.EtcdClusters =
              <<[Name |-> "main",
                 Members |-> <<[Name |-> "a", InstanceGroup |-> "master-a"],
                               [Name |-> "b", InstanceGroup |-> "master-b"]>>]>>
              => err = "There should be an odd number of master-zones"

\* C7's case: an etcd cluster of three members in three instance groups
\* passed beside "events".
C7_Witness ==
    /\ op = "etcd" /\ err = NoErr
    /\ Len(cluster.EtcdClusters) = 2
    /\ \E e \in EtcdIndices :
          /\ Cardinality(MemberGroups(cluster.EtcdClusters[e])) = 3
          /\ Cardinality({cluster.EtcdClusters[e].Members[i].Name : i \in 1..3}) = 3

\* C7's other case: an even etcd cluster was refused for its number.
C7_WitnessEven ==
    /\ op = "etcd" /\ err = "There should be an odd number of master-zones"
    /\ \E e \in EtcdIndices : Len(cluster.EtcdClusters[e].Members) = 2

\* C8 as claimed: in every cluster that passes, the member names are unique
\* within their etcd cluster.
C8_UniqueMemberNames ==
    (op = "etcd" /\ err = NoErr) =>
        \A e \in EtcdIndices :
            LET members == cluster.EtcdClusters[e].Members
            IN  \A i, j \in 1..Len(members) : i # j => members[i].Name # members[j].Name

\* C9 as claimed: in every cluster that passes, each etcd member's
\* InstanceGroup names an instance group that exists.
C9_GroupsExist ==
    (op = "etcd" /\ err = NoErr) =>
        \A e \in EtcdIndices : MemberGroups(cluster.EtcdClusters[e]) \subseteq instanceGroups

(***************************************************************************)
(* Properties of assignSubnets                                             *)
(***************************************************************************)

\* The address with the bit after its first p bits set: the first address
\* of the upper half of a network of prefix length p (p < 32).
UpperHalf(ip, p) ==
    IF p < 16 THEN [ip EXCEPT !.hi = @ + 2 ^ (15 - p)]
    ELSE [ip EXCEPT !.lo = @ + 2 ^ (31 - p)]

ClusterCIDRUnset(c) ==
    c.KubeControllerManager = Nil \/ c.KubeControllerManager.ClusterCIDR = EmptyStr

\* assignSubnets ran on an IPv4 NonMasqueradeCIDR.
RangesOfIPv4 ==
    /\ op = "ranges"
    /\ ParseOK(before.NonMasqueradeCIDR)
    /\ To4(before.NonMasqueradeCIDR.ip)

\* C10 as claimed: with NonMasqueradeCIDR an IPv4 CIDR of prefix length p, an
\* empty ClusterCIDR becomes the upper half of NonMasqueradeCIDR (prefix
\* p + 1, the newly exposed bit 1), and an empty ServiceClusterIPRange the
\* network at the base address of NonMasqueradeCIDR with prefix p + 3.
C10_RangeDefaults ==
    RangesOfIPv4 =>
        LET nm == ParseCIDR(before.NonMasqueradeCIDR)
            p  == before.NonMasqueradeCIDR.ones
        IN  /\ ClusterCIDRUnset(before) =>
                  /\ cluster.KubeControllerManager.ClusterCIDR.k = "cidr"
                  /\ cluster.KubeControllerManager.ClusterCIDR.ones = p + 1
                  /\ p < IPv4Bits =>
                        cluster.KubeControllerManager.ClusterCIDR.ip = UpperHalf(nm.IP, p)
            /\ before.ServiceClusterIPRange = EmptyStr =>
                  cluster.ServiceClusterIPRange = CIDRStr(nm.IP, p + 3)

\* The same for the prefix lengths that leave room: p <= 31 for ClusterCIDR,
\* p <= 29 for ServiceClusterIPRange.
RangeDefaultsWithRoom ==
    RangesOfIPv4 =>
        LET nm == ParseCIDR(before.NonMasqueradeCIDR)
            p  == before.NonMasqueradeCIDR.ones
        IN  /\ (ClusterCIDRUnset(before) /\ p <= IPv4Bits - 1) =>
                  cluster.KubeControllerManager.ClusterCIDR = CIDRStr(UpperHalf(nm.IP, p), p + 1)
            /\ (before.ServiceClusterIPRange = EmptyStr /\ p <= IPv4Bits - 3) =>
                  cluster.ServiceClusterIPRange = CIDRStr(nm.IP, p + 3)

\* The minimal scenario: NonMasqueradeCIDR 100.64.0.0/10, neither range given.
MinimalRanges ==
    /\ op = "ranges"
    /\ before.NonMasqueradeCIDR = CIDRStr(IPv4(100, 64, 0, 0), 10)
    /\ ClusterCIDRUnset(before)
    /\ before.ServiceClusterIPRange = EmptyStr

\* C11 as claimed: in the minimal scenario ClusterCIDR becomes 100.64.0.0/11
\* and ServiceClusterIPRange 100.64.0.0/13.
C11_MinimalRangesAsClaimed ==
    MinimalRanges =>
        /\ cluster.KubeControllerManager.ClusterCIDR = CIDRStr(IPv4(100, 64, 0, 0), 11)
        /\ cluster.ServiceClusterIPRange = CIDRStr(IPv4(100, 64, 0, 0), 13)

\* C11 amended: in the minimal scenario the call succeeds, ClusterCIDR becomes
\* 100.96.0.0/11, the upper half of 100.64.0.0/10, and ServiceClusterIPRange
\* 100.64.0.0/13.
C11_MinimalRanges ==
    MinimalRanges =>
        /\ err = NoErr
        /\ cluster.KubeControllerManager.ClusterCIDR = CIDRStr(IPv4(100, 96, 0, 0), 11)
        /\ cluster.ServiceClusterIPRange = CIDRStr(IPv4(100, 64, 0, 0), 13)

\* C11's case: assignSubnets ran on the minimal scenario, KubeControllerManager
\* not even allocated.
C11_Witness == MinimalRanges /\ before.KubeControllerManager = Nil

\* A CIDR string names a network inside the network n.
StrWithin(s, n) == ParseOK(s) /\ Within(ParseCIDR(s), n)

\* C12 as claimed: after assignSubnets succeeds with a non-empty
\* NonMasqueradeCIDR, ServiceClusterIPRange and ClusterCIDR both lie inside
\* NonMasqueradeCIDR and do not overlap each other, whatever the prefix length
\* and whether both or exactly one of them was defaulted.
C12_RangesInsideAndDisjoint ==
    (/\ op = "ranges"
     /\ err = NoErr
     /\ before.NonMasqueradeCIDR # EmptyStr
     /\ ClusterCIDRUnset(before) \/ before.ServiceClusterIPRange = EmptyStr) =>
        LET nm == ParseCIDR(before.NonMasqueradeCIDR)
        IN  /\ StrWithin(cluster.ServiceClusterIPRange, nm)
            /\ StrWithin(cluster.KubeControllerManager.ClusterCIDR, nm)
            /\ ~StrOverlap(cluster.ServiceClusterIPRange,
                           cluster.KubeControllerManager.ClusterCIDR)

\* The same with both ranges defaulted and room for them in an IPv4
\* NonMasqueradeCIDR (prefix length at most 29).
RangesInsideWithRoom ==
    (/\ RangesOfIPv4
     /\ before.NonMasqueradeCIDR.ones <= IPv4Bits - 3
     /\ ClusterCIDRUnset(before) /\ before.ServiceClusterIPRange = EmptyStr) =>
        LET nm == ParseCIDR(before.NonMasqueradeCIDR)
        IN  /\ err = NoErr
            /\ StrWithin(cluster.ServiceClusterIPRange, nm)
            /\ StrWithin(cluster.KubeControllerManager.ClusterCIDR, nm)
            /\ ~StrOverlap(cluster.ServiceClusterIPRange,
                           cluster.KubeControllerManager.ClusterCIDR)

(***************************************************************************)
(* Properties of WellKnownServiceIP                                        *)
(***************************************************************************)

\* The calls made on a ServiceClusterIPRange that parses, its network, and
\* the number of its host bits.
ServiceCalls == IF ParseOK(cluster.ServiceClusterIPRange) THEN 1..Len(ids) ELSE {}

ServiceNet == ParseCIDR(cluster.ServiceClusterIPRange)

HostBits == ServiceNet.Mask.bits - ServiceNet.Mask.ones

\* id < 2^HostBits; every id of the model is below 2^16.
InRange(id) == HostBits >= 16 \/ id < 2 ^ HostBits

\* base + id without wrap, for an id in the range.
BasePlus(id) == [ServiceNet.IP EXCEPT !.lo = @ + id]

\* C13 as claimed: WellKnownServiceIP(id) returns the base address of
\* ServiceClusterIPRange plus id, and for every id >= 2^host_bits it fails
\* and returns no address.
C13_NoWrap ==
    \A i \in ServiceCalls :
        IF InRange(ids[i])
        THEN serviceIPs[i] = [ip |-> BasePlus(ids[i]), err |-> NoErr]
        ELSE serviceIPs[i].err # NoErr /\ serviceIPs[i].ip = NoIP

\* For the ids inside the range the address is the base plus the id.
ServiceIPInRange ==
    \A i \in ServiceCalls :
        InRange(ids[i]) => serviceIPs[i] = [ip |-> BasePlus(ids[i]), err |-> NoErr]

\* C14 as claimed: WellKnownServiceIP(0) is the base address of
\* ServiceClusterIPRange, and of two successful calls the one with the
\* smaller id returns the numerically smaller address.
C14_Monotonic ==
    /\ \A i \in ServiceCalls :
          (ids[i] = 0 /\ serviceIPs[i].err = NoErr) => serviceIPs[i].ip = ServiceNet.IP
    /\ \A i, j \in ServiceCalls :
          (/\ ids[i] < ids[j]
           /\ serviceIPs[i].err = NoErr
           /\ serviceIPs[j].err = NoErr) => IPLess(serviceIPs[i].ip, serviceIPs[j].ip)

\* The same of the ids inside the range.
MonotonicInRange ==
    /\ \A i \in ServiceCalls :
          ids[i] = 0 => serviceIPs[i] = [ip |-> ServiceNet.IP, err |-> NoErr]
    /\ \A i, j \in ServiceCalls :
          (ids[i] < ids[j] /\ InRange(ids[j])) => IPLess(serviceIPs[i].ip, serviceIPs[j].ip)

(***************************************************************************)
(* Properties of PopulateClusterSpec                                       *)
(***************************************************************************)
Populated == op \in {"populate", "repopulate"}

\* C15: when a step of PopulateClusterSpec fails, the call returns an error
\* and no cluster, and the caller's cluster reads exactly as before the call.
C15_FailureLeavesInput ==
    (Populated /\ err # NoErr) =>
        /\ fullCluster = Nil
        /\ View(cluster, topologies) = before

\* C15's case: the run failed in assignSubnets on an IPv6 NonMasqueradeCIDR,
\* after KubeControllerManager had been allocated on the copy.
C15_Witness ==
    /\ op = "populate"
    /\ err = "IPV6 subnet computations not yet implements"
    /\ before.KubeControllerManager = Nil
    /\ before.Topology # "nil"

\* C15's other case: the run failed after the stores, the version and the
\* Topology pointer had been written to the copy.
C15_WitnessLate ==
    /\ op = "populate"
    /\ err = "buildCloudupTags"
    /\ before.KubernetesVersion # VersionWithoutV(before.KubernetesVersion)

\* C16 as claimed: a write to any field of the returned cluster, its Topology
\* included, leaves the caller's cluster unchanged, and a write to the
\* caller's cluster leaves the returned one unchanged.
C16_NoSharing ==
    /\ op = "mutate result" => View(cluster, topologies) = before
    /\ op = "mutate input" => View(fullCluster, topologies) = fullBefore

\* The same of every field but Topology.
NoSharingButTopology ==
    LET Rest(v) == [v EXCEPT !.Topology = "nil"]
    IN  /\ op = "mutate result" => Rest(View(cluster, topologies)) = Rest(before)
        /\ op = "mutate input" => Rest(View(fullCluster, topologies)) = Rest(fullBefore)

\* C17 as claimed: PopulateClusterSpec on a cluster it returned succeeds and
\* returns a cluster equal to it field for field.
C17_Idempotent ==
    op = "repopulate" => (err = NoErr /\ View(fullCluster, topologies) = fullBefore)

\* The same of the versions that one trim and one 'v' normalize.
IdempotentOnNormalVersions ==
    (op = "repopulate"
     /\ VersionWithoutV(fullBefore.KubernetesVersion) = fullBefore.KubernetesVersion)
        => (err = NoErr /\ View(fullCluster, topologies) = fullBefore)

(***************************************************************************)
(* Properties of the Subnet and LoadBalancer tasks                         *)
(***************************************************************************)
Ran(kind) == op = "run" /\ task.kind = kind

Called(name) == \E i \in DOMAIN trace : trace[i] = name

RenderCalled == Called("RenderAWS") \/ Called("RenderTerraform")

ImmutableSubnetFields == {"VPC", "AvailabilityZone", "CIDR"}

\* The expected value of the field is set and is not the actual one.
Differs(f) == task[f] # NilString /\ task[f] # actual[f]

\* C18: when the Subnet exists and its expected VPC, AvailabilityZone or CIDR
\* is not the actual one, the run fails with CannotChange on such a field,
\* its last step is CheckChanges, and the cloud is as it was before the run.
C18_SubnetImmutable ==
    (Ran("Subnet") /\ actual # Nil /\ \E f \in ImmutableSubnetFields : Differs(f)) =>
        /\ \E f \in ImmutableSubnetFields : Differs(f) /\ err = CannotChangeField(f)
        /\ trace = <<"Find", "DescribeSubnets", "CheckChanges">>
        /\ cloud = cloudBefore

\* C18's case: the first run created the subnet, the user changed its CIDR,
\* and the second run, on the AWS target, was refused.
C18_Witness ==
    /\ Ran("Subnet")
    /\ calls = MaxRuns
    /\ target = "AWS"
    /\ actual # Nil
    /\ Differs("CIDR")
    /\ ~Differs("VPC")
    /\ ~Differs("AvailabilityZone")
    /\ err = CannotChangeField("CIDR")
    /\ Len(cloud.subnets) = 1

\* A change of the Subnets of a LoadBalancer that exists.
SubnetsChange == Ran("LoadBalancer") /\ actual # Nil /\ changes.Subnets # <<>>

\* C19 as claimed: a change of the Subnets of a LoadBalancer that exists is
\* refused by CheckChanges with CannotChange, on either target, and no Render
\* is called.
C19_LoadBalancerSubnetsImmutable ==
    SubnetsChange => (err = CannotChangeField("Subnets") /\ ~RenderCalled)

\* What the code does with such a change: CheckChanges passes it; RenderAWS
\* refuses it without a call on the cloud, RenderTerraform emits the load
\* balancer with the new subnets unless a link or a port is bad.
SubnetsChangeReachesRender ==
    SubnetsChange =>
        /\ RenderCalled
        /\ target = "AWS" =>
              /\ err = "subnet changes on LoadBalancer not yet implemented"
              /\ cloud = cloudBefore
        /\ (target = "Terraform" /\ err = NoErr) =>
              \E tf \in output :
                 /\ tf.resource = "aws_elb"
                 /\ tf.body.subnets = [i \in DOMAIN task.Subnets |->
                                          SubnetTerraformLink(task.Subnets[i])]

SharedSubnet == Ran("Subnet") /\ BoolValue(task.Shared)

Untouched ==
    /\ cloud = cloudBefore
    /\ ~Called("CreateSubnet")
    /\ ~Called("AddAWSTags")
    /\ ~Called("RenderResource")

\* C20 as claimed: on either target, the run of a shared Subnet fails when
\* Find returned nil, and it never creates, tags or emits the subnet.
C20_SharedSubnet ==
    SharedSubnet => ((actual = Nil => err # NoErr) /\ Untouched)

\* What the code does: a shared Subnet is never created, tagged or emitted,
\* and on the AWS target the run fails when Find returned nil.
SharedSubnetOnAWS ==
    SharedSubnet => (((actual = Nil /\ target = "AWS") => err # NoErr) /\ Untouched)

\* The AWS target's Render ran with nothing found, in a cloud none of whose
\* calls fails.
CreateRendered(kind) ==
    /\ Ran(kind)
    /\ target = "AWS"
    /\ actual = Nil
    /\ Called("RenderAWS")
    /\ cloud.fail = "none"

\* The output-only fields of the task are set.
OutputFieldsSet ==
    IF task.kind = "Subnet"
    THEN task.ID # NilString
    ELSE NilString \notin {task.ID, task.DNSName, task.HostedZoneId}

\* C21 as claimed: a create by the AWS target that succeeds leaves the
\* output-only fields of the task set, and the create of a LoadBalancer given
\* by its Name alone is one that succeeds when no cloud call and no listener
\* port fails.
C21_OutputFieldsPopulated ==
    /\ (Ran(task.kind) /\ target = "AWS" /\ actual = Nil /\ Called("RenderAWS")
        /\ err = NoErr) => OutputFieldsSet
    /\ (CreateRendered("LoadBalancer") /\ ~BadPort(task.Listeners)) =>
          (err = NoErr /\ OutputFieldsSet)

\* What the code does: the fields are set whenever the create succeeds, and
\* the create of a LoadBalancer succeeds when its ID was given.
OutputFieldsWhenIDGiven ==
    /\ (Ran(task.kind) /\ target = "AWS" /\ actual = Nil /\ Called("RenderAWS")
        /\ err = NoErr) => OutputFieldsSet
    /\ (CreateRendered("LoadBalancer") /\ ~BadPort(task.Listeners)
        /\ task.ID # NilString) => (err = NoErr /\ OutputFieldsSet)
    /\ (CreateRendered("LoadBalancer") /\ ~BadPort(task.Listeners)
        /\ task.ID = NilString) => err = "panic: nil pointer dereference"

\* Two runs through the Terraform target that began with the same
\* LoadBalancer task.
SameTaskTwice(i, j) ==
    /\ target = "Terraform"
    /\ task.kind = "LoadBalancer"
    /\ i < j
    /\ runs[i].task = runs[j].task

\* C22 as claimed: two runs of the same LoadBalancer task through the
\* Terraform target emit the same resources, the order of the listener blocks
\* included.
C22_EmitterDeterministic ==
    \A i, j \in DOMAIN runs : SameTaskTwice(i, j) => runs[i].output = runs[j].output

\* A resource with its listener blocks taken as a set.
Unordered(tf) ==
    [tf EXCEPT !.body.listener = {@[k] : k \in DOMAIN @}]

\* What the code does: the two outputs are equal up to the order of the
\* listener blocks, and equal when the task has at most one listener.
DeterministicUpToListenerOrder ==
    \A i, j \in DOMAIN runs :
        SameTaskTwice(i, j) =>
            /\ {Unordered(tf) : tf \in runs[i].output} = {Unordered(tf) : tf \in runs[j].output}
            /\ Cardinality(runs[i].task.Listeners) <= 1 => runs[i].output = runs[j].output

\* The subnets and load balancers the latest run created.
CreatedSubnets ==
    {cloud.subnets[i] : i \in DOMAIN cloud.subnets \ DOMAIN cloudBefore.subnets}

CreatedELBs ==
    {cloud.elbs[i] : i \in DOMAIN cloud.elbs \ DOMAIN cloudBefore.elbs}

\* The resource carries the tags t.Cloud.BuildTags makes of the task's name.
Tagged(resource) == resource.Name = task.Name

RenderAWSReturned == op = "run" /\ target = "AWS" /\ Called("RenderAWS")

\* C23 as claimed: once the AWS target's Render has returned, with or without
\* an error, every resource it created carries the cluster's tags.
C23_CreatedCarryTags ==
    RenderAWSReturned =>
        \A resource \in CreatedSubnets \cup CreatedELBs : Tagged(resource)

\* What the code does: the resources are tagged when Render returned no
\* error, and a resource was created and left without tags only when a call
\* after the create failed.
CreatedCarryTagsOnSuccess ==
    (RenderAWSReturned /\ err = NoErr) =>
        \A resource \in CreatedSubnets \cup CreatedELBs : Tagged(resource)

\* The zone begins with the characters of us-east-2.
InUsEast2(zone) == Len(zone) >= 9 /\ SubSeq(zone, 1, 9) = UsEast2

\* C24: a cluster whose subnet zone starts with us-east-2 gets the default
\* master machine type c4.large, a cluster in any other zone m3.medium.
C24_MasterMachineTypeByZone ==
    op = "machinetype" =>
        \A i \in 1..Len(cluster.Subnets) :
            machineType = IF InUsEast2(cluster.Subnets[i].Zone)
                          THEN "c4.large"
                          ELSE "m3.medium"

\* The zone us-east-2b of Test_defaultMasterMachineType gets c4.large.
C24_Witness ==
    /\ op = "machinetype"
    /\ cluster.Subnets = <<ZoneSubnet(Append(UsEast2, "b"))>>
    /\ machineType = "c4.large"

\* The first run created and tagged the non-shared Subnet on AWS, and the
\* second run was given the same expected task, with the ID the first run
\* learnt.
CreatedThenRunAgain ==
    /\ op = "run" /\ target = "AWS" /\ task.kind = "Subnet"
    /\ Len(runs) = 2
    /\ runs[1].task.Shared # "true"
    /\ runs[1].err = NoErr
    /\ \E i, j \in DOMAIN runs[1].trace :
          i < j /\ runs[1].trace[i] = "CreateSubnet" /\ runs[1].trace[j] = "AddAWSTags"
    /\ [runs[2].task EXCEPT !.ID = NilString] = [runs[1].task EXCEPT !.ID = NilString]

\* C25: once the AWS target has created and tagged a non-shared Subnet, a
\* second run with the same expected task finds the subnet, computes no
\* change of VPC, AvailabilityZone or CIDR, passes CheckChanges and calls
\* CreateSubnet no second time.
C25_SubnetConverges ==
    CreatedThenRunAgain =>
        /\ actual # Nil
        /\ \A f \in ImmutableSubnetFields : changes[f] = NilString
        /\ err = NoErr
        /\ ~Called("CreateSubnet")
        /\ Len(cloud.subnets) = Len(cloudBefore.subnets)

C25_Witness ==
    /\ CreatedThenRunAgain
    /\ actual # Nil
    /\ actual.ID = task.ID
    /\ Called("CheckChanges")

\* The cloud calls of the latest Render, in order: what follows RenderAWS in
\* the trace.
RenderCalls ==
    IF Called("RenderAWS")
    THEN SubSeq(trace, (CHOOSE i \in DOMAIN trace : trace[i] = "RenderAWS") + 1, Len(trace))
    ELSE <<>>

LoadBalancerRenderedOnAWS == Ran("LoadBalancer") /\ target = "AWS" /\ Called("RenderAWS")

HealthCheckExpectedAndChanged == task.HealthCheck # Nil /\ changes.HealthCheck # Nil

\* The errors with which the create/update step of RenderAWS returns.
CreateUpdateErrors ==
    {RequiredField("ID"), "error parsing load balancer listener port",
     "panic: nil pointer dereference", "error creating ELB",
     "subnet changes on LoadBalancer not yet implemented",
     "error creating LoadBalancerListeners"}

CreateUpdateSucceeded == err \notin CreateUpdateErrors

\* The tag call is the last cloud call, made once, after the create call of
\* the create path and after the health-check call, if any, and none of the
\* calls before it failed.
TagCallLast ==
    Called("AddELBTags") =>
        /\ RenderCalls[Len(RenderCalls)] = "AddELBTags"
        /\ \A i \in 1..(Len(RenderCalls) - 1) : RenderCalls[i] # "AddELBTags"
        /\ err \in {NoErr, "error adding tags"}
        /\ actual = Nil => RenderCalls[1] = "CreateLoadBalancer"
        /\ HealthCheckExpectedAndChanged =>
              RenderCalls[Len(RenderCalls) - 1] = "ConfigureHealthCheck"

StepOf(statement) ==
    CASE statement = "Validate(false)" -> 1
      [] statement = "JsonMergeStruct" -> 2
      [] statement = "assignSubnets" -> 3
      [] statement = "FillDefaults" -> 4
      [] statement = "PerformAssignments" -> 5
      [] statement = "EtcdClusters" -> 6
      [] statement = "Stores" -> 7
      [] statement = "KubernetesVersion" -> 8
      [] statement \in {"BuildCloud", "Topology", "DNSZone"} -> 9
      [] statement \in {"buildCloudupTags", "BuildCompleteSpec", "completed.Topology"} -> 10
      [] statement = "fullCluster" -> 11

LastStep == StepOf("fullCluster")

EtcdErrors ==
    {"EtcdClusters did not specify a Name", "EtcdMember did not specify a Name",
     "EtcdMember did not specify a InstanceGroup",
     "There should be an odd number of master-zones"}

StoreErrors ==
    {"registry.KeyStore", "registry.SecretStore",
     "secrets path is not cluster readable", "keyStore path is not cluster readable",
     "error parsing ConfigBase", "ConfigBase path is not cluster readable"}

\* The step that returns the error.
FailingStep(error) ==
    CASE error = "validation failed" -> 1
      [] error = "FillDefaults failed" -> 4
      [] error = "PerformAssignments failed" -> 5
      [] error \in EtcdErrors -> 6
      [] error \in StoreErrors -> 7
      [] error \in {"BuildCloud", "error getting DNS for cloud",
                    "Error determining default DNS zone"} -> 9
      [] error \in {"buildCloudupTags", "error building complete spec"} -> 10
      [] error = "Completed cluster failed validation" -> 11
      [] OTHER -> 3

Executed(statement) == \E i \in DOMAIN steps : steps[i] = statement

\* C27: run() executes its steps in the one order validation, copy, IP
\* ranges, FillDefaults, assignments, etcd, stores, version, cloud and DNS
\* zone, options loader, strict validation, and stops at the first step that
\* fails: no DNS-zone lookup and no options loader after a failure of the
\* etcd validation or of a store.
C27_StepsInOrderUntilFailure ==
    Populated =>
        /\ steps # <<>>
        /\ StepOf(steps[1]) = 1
        /\ \A i \in 1..(Len(steps) - 1) :
              StepOf(steps[i + 1]) \in {StepOf(steps[i]), StepOf(steps[i]) + 1}
        /\ \A i, j \in DOMAIN steps : steps[i] = steps[j] => i = j
        /\ err = NoErr => StepOf(steps[Len(steps)]) = LastStep
        /\ err # NoErr => StepOf(steps[Len(steps)]) = FailingStep(err)
        /\ err \in EtcdErrors \cup StoreErrors =>
              ~Executed("DNSZone") /\ ~Executed("BuildCompleteSpec")

\* A store is not readable: the run ends there, after the etcd validation.
C27_Witness ==
    /\ Populated
    /\ err = "keyStore path is not cluster readable"
    /\ steps = <<"Validate(false)", "JsonMergeStruct", "assignSubnets", "FillDefaults",
                 "PerformAssignments", "EtcdClusters", "Stores">>

\* The first call of PopulateClusterSpec returned a cluster for an input
\* whose Topology was nil.
PopulatedWithoutTopology ==
    op = "populate" /\ fullCluster # Nil /\ before.Topology = "nil"

\* C28 as claimed: when the input leaves its topology unset, the returned
\* cluster has the topology public that FillDefaults filled in.
C28_DefaultTopologyReturned ==
    PopulatedWithoutTopology =>
        View(fullCluster, topologies).Topology = "public"

\* What the code does: the returned cluster has the Topology pointer of the
\* input, nil when the input has none; the default FillDefaults made is an
\* object nothing points to.
InputTopologyReturned ==
    (op = "populate" /\ fullCluster # Nil) =>
        /\ fullCluster.Topology = cluster.Topology
        /\ before.Topology = "nil" =>
              /\ fullCluster.Topology = 0
              /\ \E i \in DOMAIN topologies : topologies[i] = "public"

\* The load balancer Find read in the latest run, as the cloud held it.
Observed ==
    CHOOSE lb \in {cloudBefore.elbs[i] : i \in DOMAIN cloudBefore.elbs} :
        lb.LoadBalancerName = actual.ID

IDs(subnetList) == [i \in DOMAIN subnetList |-> subnetList[i].ID]

\* The two sequences hold the same values, each as many times: one is the
\* other rearranged.
SameMultiset(l, r) ==
    /\ Len(l) = Len(r)
    /\ \E p \in [DOMAIN l -> DOMAIN l] :
          /\ \A i, j \in DOMAIN l : p[i] = p[j] => i = j
          /\ \A i \in DOMAIN l : l[i] = r[p[i]]

LoadBalancerFound == Ran("LoadBalancer") /\ actual # Nil

\* C29: when the subnet IDs of the cloud load balancer and the IDs of the
\* expected Subnets are equal as multisets, the actual that Find returns
\* carries the expected Subnets and the diff holds no Subnets; when an
\* expected subnet has no ID or the multisets differ, the actual carries the
\* observed subnets.
C29_SubnetOrderSuppressed ==
    LoadBalancerFound =>
        IF /\ \A i \in DOMAIN task.Subnets : task.Subnets[i].ID # NilString
           /\ SameMultiset(Observed.Subnets, IDs(task.Subnets))
        THEN actual.Subnets = task.Subnets /\ changes.Subnets = <<>>
        ELSE IDs(actual.Subnets) = Observed.Subnets /\ actual.Subnets # task.Subnets

\* The expected subnets are those of the load balancer in another order.
C29_Witness ==
    /\ LoadBalancerFound
    /\ Len(task.Subnets) = 2
    /\ IDs(task.Subnets) # Observed.Subnets
    /\ SameMultiset(Observed.Subnets, IDs(task.Subnets))
    /\ actual.Subnets = task.Subnets

\* The load balancer of the latest run as the cloud holds it now.
ObservedAfter ==
    CHOOSE lb \in {cloud.elbs[i] : i \in DOMAIN cloud.elbs} :
        lb.LoadBalancerName = actual.ID

Ports(listeners) == {l.LoadBalancerPort : l \in listeners}

LoadBalancerUpdatedOnAWS == LoadBalancerRenderedOnAWS /\ actual # Nil

\* C30: on the update path RenderAWS removes no listener: every listener port
\* the cloud load balancer had before the render it has after it, and the
\* only change of the listeners is the addition of those the diff holds.
C30_ListenersOnlyAdded ==
    LoadBalancerUpdatedOnAWS =>
        /\ Ports(Observed.Listeners) \subseteq Ports(ObservedAfter.Listeners)
        /\ Observed.Listeners \subseteq ObservedAfter.Listeners
        /\ ObservedAfter.Listeners \subseteq Observed.Listeners \cup changes.Listeners
        /\ ObservedAfter.Listeners # Observed.Listeners => Called("CreateLoadBalancerListeners")
        /\ ~Called("CreateLoadBalancer")
        /\ Len(cloud.elbs) = Len(cloudBefore.elbs)

\* The load balancer listens on 443, the task expects 8080: 8080 is added and
\* 443 stays.
C30_Witness ==
    /\ LoadBalancerUpdatedOnAWS
    /\ Called("CreateLoadBalancerListeners")
    /\ Ports(Observed.Listeners) = {"443"}
    /\ Ports(task.Listeners) = {"8080"}
    /\ Ports(ObservedAfter.Listeners) = {"443", "8080"}

====
